---- MODULE Spec2Model ----
(***************************************************************************)
(* Validated construction of Address and Person objects and the            *)
(* create-or-report harness (CreateSafely, CreateAndCheck) of the          *)
(* exercises-in-cpp repository.                                            *)
(*                                                                         *)
(* Three programs of the repository build Address/Person objects:          *)
(*   "factory" : src/unnamed/part_003 lines 1-250 (and part_004): private  *)
(*               constructors, Create factories, the harness.              *)
(*   "ctor"    : src/1_address/main.cpp: public constructors that reset    *)
(*               the object to the unset sentinel on a validation failure. *)
(*   "exc"     : src/unnamed/part_003 lines 252-445: public constructors   *)
(*               whose validators throw std::invalid_argument.             *)
(* A std::string is a finite sequence of characters.                       *)
(***************************************************************************)
EXTENDS Integers, Sequences, FiniteSets, TLC

\* ------------------------------------------------------------------ bounds
\* Longest street / city / name / context string a caller passes.
MaxStrLen == 2
\* Harness calls main makes for one object (a CreateSafely failure may be retried).
MaxAttempts == 2
\* Longest context / additional_info text handed to HandleValidationFailure
\* in a direct call.
MaxFieldLen == 16
\* Sphere objects alive at a time
MaxSpheres == 3
\* Images in the vector
MaxImages == 2
\* Entries of the array of vehicles
MaxVehicles == 2
\* Slots of the array CollectPeople fills
MaxPeople == 3
\* Invalid menu choices entered in one run
MaxRetries == 2

\* ------------------------------------------------------------- input sets
Chars == {"a"}

RECURSIVE StringsOfLen(_)
StringsOfLen(n) ==
    IF n = 0 THEN {<<>>}
    ELSE {Append(s, c) : s \in StringsOfLen(n - 1), c \in Chars}

Strings == UNION {StringsOfLen(n) : n \in 0..MaxStrLen}

\* int postal codes around both ends of the accepted range.
PostalCodes == {-1, 0, 1, 12345, 99950, 99951}

\* int ages a caller writes as the age argument of the harness.
RawAges == {-1, 0, 1, 30, 120, 121, 255, 256, 257}

\* Texts of every length up to MaxFieldLen whose characters differ from their
\* neighbours, so that a prefix is told from any other part of the text.
Alphabet ==
    <<"a","b","c","d","e","f","g","h","i","j","k","l","m","n","o","p","q","r","s","t","u","v","w","x","y","z">>
FieldText(n) == [i \in 1..n |-> Alphabet[((i - 1) % Len(Alphabet)) + 1]]
FieldTexts == {FieldText(n) : n \in 0..MaxFieldLen}

\* ---------------------------------------------------------------- literals
MsgCreationFailed ==
    <<"C","r","e","a","t","i","o","n"," ","f","a","i","l","e","d">>
MsgCriticalCreationFailure ==
    <<"C","r","i","t","i","c","a","l"," ","C","r","e","a","t","i","o","n"," ","F","a","i","l","u","r","e">>
MsgEmptyStreet ==
    <<"S","t","r","e","e","t"," ","c","a","n","n","o","t"," ","b","e"," ","e","m","p","t","y",".">>
MsgEmptyCity ==
    <<"C","i","t","y"," ","c","a","n","n","o","t"," ","b","e"," ","e","m","p","t","y",".">>
MsgInvalidPostalCode ==
    <<"P","o","s","t","a","l"," ","c","o","d","e"," ","m","u","s","t"," ","b","e"," ","b","e","t","w","e","e","n"," ","1"," ","a","n","d"," ","9","9","9","5","0",".">>
MsgEmptyName ==
    <<"N","a","m","e"," ","c","a","n","n","o","t"," ","b","e"," ","e","m","p","t","y",".">>
MsgInvalidAge ==
    <<"A","g","e"," ","m","u","s","t"," ","b","e"," ","b","e","t","w","e","e","n"," ","1"," ","a","n","d"," ","1","2","0",".">>
MsgUnknown ==
    <<"U","n","k","n","o","w","n"," ","v","a","l","i","d","a","t","i","o","n"," ","e","r","r","o","r",".">>
LogPrefix ==
    <<"[","V","a","l","i","d","a","t","i","o","n"," ","F","a","i","l","u","r","e","]"," ">>
ContextSep ==
    <<" ","|"," ","C","o","n","t","e","x","t",":"," ">>
InfoSep ==
    <<" ","|"," ","I","n","f","o",":"," ">>
Ellipsis ==
    <<".",".",".">>

\* Default of HandleValidationFailure's max_length parameter.
DEFAULT_MAX_LENGTH == 100
\* std::errc::invalid_argument (EINVAL), the value of the error_code
\* CreateAndCheck hands to ProgramTermination.
EINVAL == 22
EXIT_SUCCESS == 0

\* -------------------------------------------------------------- the values
\* std::optional<int>
Nullopt == [has |-> FALSE, val |-> 0]
Some(v) == [has |-> TRUE, val |-> v]

\* std::optional<ValidationError> returned by the validators
NoError == "nullopt"
ErrorTags ==
    {"EmptyStreet", "EmptyCity", "InvalidPostalCode", "EmptyName", "InvalidAge"}

\* ValidationError::None and values of the enumeration that have no name,
\* static_cast<ValidationError>(6) and static_cast<ValidationError>(-1).
UnnamedTags == {"6", "-1"}
AllTags == ErrorTags \cup {"None"} \cup UnnamedTags

\* std::variant<T, ValidationError> and the absence of any value
NoValue == [kind |-> "None"]
Error(tag) == [kind |-> "Error", tag |-> tag]
HoldsError(v) == v.kind = "Error"

\* The conversion with a slip: values out of range are clamped.
ToUint8_Saturating(a) == IF a < 0 THEN 0 ELSE IF a > 255 THEN 255 ELSE a

\* conversion of an int argument to std::uint8_t
ToUint8(a) == a % 256

\* ------------------------------------------------------------ the Validator
ValidateAddress_CityFirst(street, city, postal_code) ==
    IF city = <<>> THEN "EmptyCity"
    ELSE IF street = <<>> THEN "EmptyStreet"
    ELSE IF postal_code < 1 \/ postal_code > 99950 THEN "InvalidPostalCode"
    ELSE NoError

ValidateAddress(street, city, postal_code) ==
    IF street = <<>> THEN "EmptyStreet"
    ELSE IF city = <<>> THEN "EmptyCity"
    ELSE IF postal_code < 1 \/ postal_code > 99950 THEN "InvalidPostalCode"
    ELSE NoError

ValidatePerson_OffByOne(name, age) ==
    IF name = <<>> THEN "EmptyName"
    ELSE IF age = 0 \/ age >= 120 THEN "InvalidAge"
    ELSE NoError

ValidatePerson(name, age) ==
    IF name = <<>> THEN "EmptyName"
    ELSE IF age = 0 \/ age > 120 THEN "InvalidAge"
    ELSE NoError

\* GetErrorMessage with a slip: ValidationError::None has a case of its own
\* that returns an empty sentence.
GetErrorMessage_NoneIsEmpty(error) ==
    CASE error = "EmptyStreet" -> MsgEmptyStreet
      [] error = "EmptyCity" -> MsgEmptyCity
      [] error = "InvalidPostalCode" -> MsgInvalidPostalCode
      [] error = "EmptyName" -> MsgEmptyName
      [] error = "InvalidAge" -> MsgInvalidAge
      [] error = "None" -> <<>>
      [] OTHER -> MsgUnknown

GetErrorMessage(error) ==
    CASE error = "EmptyStreet" -> MsgEmptyStreet
      [] error = "EmptyCity" -> MsgEmptyCity
      [] error = "InvalidPostalCode" -> MsgInvalidPostalCode
      [] error = "EmptyName" -> MsgEmptyName
      [] error = "InvalidAge" -> MsgInvalidAge
      [] OTHER -> MsgUnknown

\* Truncate with a slip: a text of exactly max_length characters is cut too.
Truncate_OffByOne(input, max_length) ==
    IF Len(input) >= max_length
    THEN SubSeq(input, 1, max_length) \o Ellipsis
    ELSE input

Truncate(input, max_length) ==
    IF Len(input) > max_length
    THEN SubSeq(input, 1, max_length) \o Ellipsis
    ELSE input

\* FailureLine with a slip: the context segment is written even when the
\* context is empty.
FailureLine_AlwaysContext(error, context, additional_info, max_length) ==
    LogPrefix \o GetErrorMessage(error)
    \o ContextSep \o Truncate(context, max_length)
    \o (IF additional_info # <<>>
        THEN InfoSep \o Truncate(additional_info, max_length) ELSE <<>>)

\* The line HandleValidationFailure writes to std::cerr when DEBUG_MODE is on.
FailureLine(error, context, additional_info, max_length) ==
    LogPrefix \o GetErrorMessage(error)
    \o (IF context # <<>>
        THEN ContextSep \o Truncate(context, max_length) ELSE <<>>)
    \o (IF additional_info # <<>>
        THEN InfoSep \o Truncate(additional_info, max_length) ELSE <<>>)

\* HandleValidationFailure with a slip: the line is written whatever
\* Config::DEBUG_MODE is.
HandleValidationFailure_IgnoresFlag(err, error, context, additional_info, max_length, dbg) ==
    Append(err, FailureLine(error, context, additional_info, max_length))

\* std::cerr after HandleValidationFailure(error, context, additional_info,
\* max_length), given std::cerr before it and Config::DEBUG_MODE.
HandleValidationFailure(err, error, context, additional_info, max_length, dbg) ==
    IF dbg
    THEN Append(err, FailureLine(error, context, additional_info, max_length))
    ELSE err

\* ------------------------------------------------------------ the entities
\* The private constructors of the factory program store their arguments.
AddressObject(street, city, postal_code) ==
    [kind |-> "Address", street |-> street, city |-> city,
     postal |-> postal_code]

PersonObject(name, age, address) ==
    [kind |-> "Person", name |-> name, age |-> age, address |-> address]

\* Address::Create with a slip: the rejected object travels with the error.
AddressCreate_KeepsObject(street, city, postal_code) ==
    LET error == ValidateAddress(street, city, postal_code)
    IN  IF error # NoError
        THEN [kind |-> "Error", tag |-> error,
              object |-> AddressObject(street, city, Some(postal_code))]
        ELSE AddressObject(street, city, Some(postal_code))

AddressCreate(street, city, postal_code) ==
    LET error == ValidateAddress(street, city, postal_code)
    IN  IF error # NoError THEN Error(error)
        ELSE AddressObject(street, city, Some(postal_code))

PersonCreate(name, age, address) ==
    LET error == ValidatePerson(name, age)
    IN  IF error # NoError THEN Error(error)
        ELSE PersonObject(name, age, address)

\* ------------------------------------------------------- number to text
Digits == <<"0","1","2","3","4","5","6","7","8","9">>

RECURSIVE NatToString(_)
NatToString(n) ==
    IF n < 10 THEN <<Digits[n + 1]>>
    ELSE NatToString(n \div 10) \o <<Digits[(n % 10) + 1]>>

\* std::to_string(int), operator<<(int)
IntToString(n) == IF n < 0 THEN <<"-">> \o NatToString(-n) ELSE NatToString(n)

\* What a constructor call leaves: the object (or the exception that left the
\* constructor) and, in order, the reports it handed to
\* HandleValidationFailure and the lines it wrote to std::cerr itself.
Thrown(what, at) == [kind |-> "Thrown", what |-> what, at |-> at]
Built(obj, out) == [obj |-> obj, out |-> out]
ReportOf(error, context, message, max_length) ==
    [report |-> TRUE, error |-> error, context |-> context,
     message |-> message, max |-> max_length]
LineOf(text) ==
    [report |-> FALSE, error |-> "", context |-> <<>>, message |-> text,
     max |-> 0]

\* --------------------------------------- the constructors of the ctor program
STREET_UNSET ==
    <<"U","n","s","e","t">>
CITY_UNSET ==
    <<"U","n","s","e","t">>
NAME_UNSET ==
    <<"U","n","s","e","t">>
AGE_UNSET == 0
MAX_LOG_LENGTH == 50
CtxAddressConstructor ==
    <<"A","d","d","r","e","s","s"," ","C","o","n","s","t","r","u","c","t","o","r">>
CtxPersonConstructor ==
    <<"P","e","r","s","o","n"," ","C","o","n","s","t","r","u","c","t","o","r">>
LblStreet ==
    <<"S","t","r","e","e","t",":"," ">>
LblCity ==
    <<","," ","C","i","t","y",":"," ">>
LblPostalCode ==
    <<","," ","P","o","s","t","a","l"," ","C","o","d","e",":"," ">>
LblName ==
    <<"N","a","m","e",":"," ">>
LblAge ==
    <<","," ","A","g","e",":"," ">>

\* ------------------------------------------ printed forms (factory program)
SepComma ==
    <<",", " ">>
TxtUnset ==
    <<"U","n","s","e","t">>
PostalText(a) ==
    IF a.postal.has THEN IntToString(a.postal.val) ELSE TxtUnset

\* operator<<(std::ostream&, const Address&)
AddressToStream(a) ==
    a.street \o SepComma \o a.city \o <<" ", "(">> \o PostalText(a) \o <<")">>

\* Address::PrintAddress
PrintAddress(a) ==
    LblStreet \o a.street \o LblCity \o a.city \o LblPostalCode
    \o PostalText(a) \o <<"\n">>

\* operator<<(std::ostream&, const Person&)
PersonToStream(p) == p.name \o <<" ">> \o IntToString(p.age)

\* Person::PrintPerson
PrintPerson(p) ==
    LblName \o p.name \o LblAge \o IntToString(p.age) \o SepComma
    \o PrintAddress(p.address)

\* Address::ResetToDefaults with a slip: only the street is reset.
KResetAddress_StreetOnly(a) ==
    [a EXCEPT !.street = STREET_UNSET]

\* Address::ResetToDefaults
KResetAddress(a) ==
    [a EXCEPT !.street = STREET_UNSET, !.city = CITY_UNSET, !.postal = Nullopt]

\* Person::ResetToDefaults
KResetPerson(p) ==
    [p EXCEPT !.name = NAME_UNSET, !.age = AGE_UNSET]

\* Address(std::string, std::string, std::optional<int>): std::optional's
\* value() throws std::bad_optional_access when the optional is empty, both
\* in the call of ValidateAddress and, after ResetToDefaults, in the
\* arguments of HandleValidationFailure.
KAddressCtor_NoValidation(street, city, postal_code) ==
    Built(AddressObject(street, city, postal_code), <<>>)

KAddressCtor(street, city, postal_code) ==
    LET init == AddressObject(street, city, postal_code)
    IN  IF ~init.postal.has
        THEN Built(Thrown("bad_optional_access", "ValidateAddress"), <<>>)
        ELSE LET error == ValidateAddress(init.street, init.city,
                                          init.postal.val)
             IN  IF error = NoError THEN Built(init, <<>>)
                 ELSE LET reset == KResetAddress(init)
                      IN  IF ~reset.postal.has
                          THEN Built(Thrown("bad_optional_access",
                                            "HandleValidationFailure"), <<>>)
                          ELSE Built(reset,
                                 <<ReportOf(error, CtxAddressConstructor,
                                     LblStreet \o reset.street \o LblCity
                                     \o reset.city \o LblPostalCode
                                     \o IntToString(reset.postal.val),
                                     MAX_LOG_LENGTH)>>)

\* Address(): delegates to the constructor above with std::nullopt.
KAddressDefault == KAddressCtor(STREET_UNSET, CITY_UNSET, Nullopt)

\* Person(const std::string&, std::uint8_t, const Address&): copies address.
KPersonCtor(name, age, addr) ==
    LET init == PersonObject(name, age, addr)
        error == ValidatePerson(init.name, init.age)
    IN  IF error = NoError THEN Built(init, <<>>)
        ELSE LET reset == KResetPerson(init)
             IN  Built(reset,
                       <<ReportOf(error, CtxPersonConstructor,
                           LblName \o reset.name \o LblAge
                           \o IntToString(reset.age), MAX_LOG_LENGTH)>>)

\* Person(name, age, street, city, postal_code): builds m_address first.
KPersonCtorRaw(name, age, street, city, postal_code) ==
    LET a == KAddressCtor(street, city, Some(postal_code))
    IN  IF a.obj.kind = "Thrown" THEN a
        ELSE LET p == KPersonCtor(name, age, a.obj)
             IN  Built(p.obj, a.out \o p.out)

\* Person(): Person(NAME_UNSET, AGE_UNSET, Address())
KPersonDefault ==
    LET a == KAddressDefault
    IN  IF a.obj.kind = "Thrown" THEN a
        ELSE LET p == KPersonCtor(NAME_UNSET, AGE_UNSET, a.obj)
             IN  Built(p.obj, a.out \o p.out)

\* ---------------------------------------- the constructors of the exc program
WhatStreetCity ==
    <<"E","r","r","o","r",":"," ","S","t","r","e","e","t"," ","a","n","d"," ","c","i","t","y"," ","c","a","n","n","o","t"," ","b","e"," ","e","m","p","t","y",".","\n">>
WhatPostalCode ==
    <<"E","r","r","o","r",":"," ","T","h","e"," ","p","o","s","t","a","l"," ","c","o","d","e"," ","m","u","s","t"," ","b","e"," ","b","e","t","w","e","e","n"," ","1"," ","a","n","d"," ","9","9","9","5","0",".","\n">>
WhatName ==
    <<"E","r","r","o","r",":"," ","N","a","m","e"," ","c","a","n","n","o","t"," ","b","e"," ","e","m","p","t","y",".","\n">>
WhatAge ==
    <<"E","r","r","o","r",":"," ","A","g","e"," ","m","u","s","t"," ","b","e"," ","b","e","t","w","e","e","n"," ","1"," ","a","n","d"," ","1","2","0",".","\n">>
\* The Greek defaults of the source, transliterated.
E_DEFAULT_STREET ==
    <<"P","a","p","a","k","o","s","t","a","k","i"," ","1","1","5">>
E_DEFAULT_CITY ==
    <<"T","h","e","s","s","a","l","o","n","i","k","i">>
E_DEFAULT_NAME ==
    <<"G","i","a","n","n","i","s">>
E_DEFAULT_POSTAL_CODE == 41900
E_DEFAULT_AGE == 25

\* The validators throw std::invalid_argument; <<>> stands for no exception,
\* any other value is the exception's what().
EValidateAddress(street, city, postal_code) ==
    IF street = <<>> \/ city = <<>> THEN WhatStreetCity
    ELSE IF postal_code < 1 \/ postal_code > 99950 THEN WhatPostalCode
    ELSE <<>>

EValidatePerson(name, age) ==
    IF name = <<>> THEN WhatName
    ELSE IF age = 0 \/ age > 120 THEN WhatAge
    ELSE <<>>

\* Address(std::string, std::string, int): m_postal_code is a plain int,
\* kept here as an optional that is always set.
EAddressCtor(street, city, postal_code) ==
    LET what == EValidateAddress(street, city, postal_code)
    IN  IF what = <<>>
        THEN Built(AddressObject(street, city, Some(postal_code)), <<>>)
        ELSE Built(AddressObject(E_DEFAULT_STREET, E_DEFAULT_CITY,
                                 Some(E_DEFAULT_POSTAL_CODE)),
                   <<ReportOf("invalid_argument", <<>>, what, 0),
                     LineOf(LblStreet \o street \o LblCity \o city
                            \o LblPostalCode \o IntToString(postal_code))>>)

\* Address()
EAddressDefault ==
    Built(AddressObject(E_DEFAULT_STREET, E_DEFAULT_CITY,
                        Some(E_DEFAULT_POSTAL_CODE)), <<>>)

\* Person(const std::string&, std::uint8_t, const Address&): the catch block
\* takes no corrective action.
EPersonCtor(name, age, addr) ==
    LET what == EValidatePerson(name, age)
    IN  IF what = <<>> THEN Built(PersonObject(name, age, addr), <<>>)
        ELSE Built(PersonObject(name, age, addr),
                   <<ReportOf("invalid_argument", <<>>, what, 0)>>)

\* Person(name, age, street, city, postal_code): operator<< writes the
\* std::uint8_t age as one character, kept here as its code.
EPersonCtorRaw(name, age, street, city, postal_code) ==
    LET a == EAddressCtor(street, city, postal_code)
        what == EValidatePerson(name, age)
    IN  IF what = <<>>
        THEN Built(PersonObject(name, age, a.obj), a.out)
        ELSE Built(PersonObject(E_DEFAULT_NAME, E_DEFAULT_AGE, a.obj),
                   a.out \o <<ReportOf("invalid_argument", <<>>, what, 0),
                              LineOf(LblName \o name \o LblAge \o <<age>>)>>)

\* Person()
EPersonDefault ==
    LET a == EAddressCtor(E_DEFAULT_STREET, E_DEFAULT_CITY,
                          E_DEFAULT_POSTAL_CODE)
    IN  Built(PersonObject(E_DEFAULT_NAME, E_DEFAULT_AGE, a.obj), a.out)

\* ---------------------------------------------------------------- the state
VARIABLES
    variant,     \* the program that runs: "factory", "ctor" or "exc"
    debug,       \* Config::DEBUG_MODE of the build
    pc,          \* the statement about to run
    stmt,        \* main's position: the object it is creating
    attempts,    \* harness calls main has made for that object
    call,        \* the harness call in progress: function, T, context, args
    csResult,    \* CreateSafely's local `result`
    ccResult,    \* CreateAndCheck's local `result`
    ret,         \* what the last harness call returned to main
    address,     \* main's variable `address`
    person,      \* main's variable `person`
    handled,     \* the reports handed to HandleValidationFailure in this call
    trace,       \* the events of this call, in order
    stderr,      \* the lines this harness call wrote to std::cerr
    termCode,    \* ProgramTermination's parameter error_code (0: default)
    stdinReady,  \* a character (or end of file) is waiting on std::cin
    outcome,     \* "running", "exit" (std::exit) or "abort" (uncaught exception)
    exitStatus,  \* the status handed to std::exit
    person2,     \* a second Person variable of main (person1, person2)
    thrown,      \* the exception that left a constructor and was not caught
    unitIn,      \* the arguments of the function a direct call applies
    unitOut,     \* what the direct calls made so far returned or wrote
    spheres,     \* the Sphere objects alive: the m_radius of each
    images,      \* main's std::vector<Image> images
    sorted,      \* what the last Sort or ReverseSort call returned
    people,      \* the array of owning pointers Collect... fills
    loopI,       \* the loop variable i of Collect... (a std::size_t)
    choice,      \* the menu choice read from std::cin
    created      \* how many objects std::make_unique has created

vars ==
    <<variant, debug, pc, stmt, attempts, call, csResult, ccResult, ret,
      address, person, handled, trace, stderr, termCode, stdinReady, outcome,
      exitStatus, person2, thrown, unitIn, unitOut, spheres, images, sorted,
      people, loopI, choice, created>>

NoCall ==
    [fn |-> "None", T |-> "None", context |-> <<>>, street |-> <<>>,
     city |-> <<>>, postal |-> 0, name |-> <<>>, age |-> 0,
     address |-> NoValue]

AddressCall(fn, context, street, city, postal_code) ==
    [NoCall EXCEPT !.fn = fn, !.T = "Address", !.context = context,
                   !.street = street, !.city = city, !.postal = postal_code]

PersonCall(fn, context, name, age, addr) ==
    [NoCall EXCEPT !.fn = fn, !.T = "Person", !.context = context,
                   !.name = name, !.age = age, !.address = addr]

\* Create with a slip: it keeps state, answering the error of the call
\* before it again.
Create_StickyError(c) ==
    IF Len(unitOut) > 0 /\ HoldsError(unitOut[Len(unitOut)].result)
    THEN unitOut[Len(unitOut)].result
    ELSE IF c.T = "Address" THEN AddressCreate(c.street, c.city, c.postal)
    ELSE PersonCreate(c.name, ToUint8(c.age), c.address)

\* T::Create(std::forward<Args>(args)...): an int age converts to std::uint8_t.
Create(c) ==
    IF c.T = "Address" THEN AddressCreate(c.street, c.city, c.postal)
    ELSE PersonCreate(c.name, ToUint8(c.age), c.address)

\* No direct call is being made.
NoUnit == [fn |-> "None"]

\* The other exercises of the repository are separate programs: while one
\* program runs, the objects of the others do not exist.
ExercisesIdle ==
    /\ spheres = <<>>
    /\ images = <<>>
    /\ sorted = <<>>
    /\ people = <<>>
    /\ loopI = 0
    /\ choice = 0
    /\ created = 0

Init ==
    /\ variant \in {"factory", "ctor", "exc"}
    /\ debug \in BOOLEAN
    /\ pc = "main"
    /\ stmt = IF variant = "factory" THEN "address" ELSE "ops"
    /\ attempts = 0
    /\ call = NoCall
    /\ csResult = NoValue
    /\ ccResult = NoValue
    /\ ret = NoValue
    /\ address = NoValue
    /\ person = NoValue
    /\ handled = <<>>
    /\ trace = <<>>
    /\ stderr = <<>>
    /\ termCode = 0
    /\ stdinReady = FALSE
    /\ outcome = "running"
    /\ exitStatus = 0
    /\ person2 = NoValue
    /\ thrown = NoValue
    /\ unitIn = NoUnit
    /\ unitOut = <<>>
    /\ ExercisesIdle

exerciseVars == <<spheres, images, sorted, people, loopI, choice, created>>
unitVars == <<unitIn, unitOut, exerciseVars>>
objectVars == <<address, person>>
ioVars == <<stderr, stdinReady>>
exitVars == <<termCode, outcome, exitStatus>>
callVars == <<call, csResult, ccResult, handled, trace>>

\* --------------------------------------------------- main (factory program)
\* main calls a harness function for its next object; handled, trace and
\* stderr record that call only.
BeginCall(c) ==
    /\ call' = c
    /\ attempts' = attempts + 1
    /\ csResult' = NoValue
    /\ ccResult' = NoValue
    /\ ret' = NoValue
    /\ handled' = <<>>
    /\ trace' = <<>>
    /\ stderr' = <<>>
    /\ pc' = "cs_enter"

MainCreateAddress ==
    /\ variant = "factory" /\ pc = "main" /\ stmt = "address"
    /\ attempts < MaxAttempts
    /\ \E fn \in {"CreateSafely", "CreateAndCheck"}, context \in Strings,
          street \in Strings, city \in Strings, postal_code \in PostalCodes :
          BeginCall(AddressCall(fn, context, street, city, postal_code))
    /\ UNCHANGED <<variant, debug, unitVars, thrown, person2, stmt, objectVars, stdinReady, exitVars>>

MainCreatePerson ==
    /\ variant = "factory" /\ pc = "main" /\ stmt = "person"
    /\ attempts < MaxAttempts
    /\ \E fn \in {"CreateSafely", "CreateAndCheck"}, context \in Strings,
          name \in Strings, age \in RawAges :
          BeginCall(PersonCall(fn, context, name, age, address))
    /\ UNCHANGED <<variant, debug, unitVars, thrown, person2, stmt, objectVars, stdinReady, exitVars>>

\* main stops asking after a CreateSafely failure.
MainGiveUp ==
    /\ variant = "factory" /\ pc = "main" /\ stmt \in {"address", "person"}
    /\ HoldsError(ret)
    /\ stmt' = "end"
    /\ UNCHANGED <<variant, debug, unitVars, thrown, person2, pc, attempts, ret, callVars, objectVars,
                   ioVars, exitVars>>

\* person.PrintPerson(): writes to std::cout only.
MainPrintPerson ==
    /\ variant = "factory" /\ pc = "main" /\ stmt = "print"
    /\ stmt' = "end"
    /\ UNCHANGED <<variant, debug, unitVars, thrown, person2, pc, attempts, ret, callVars, objectVars,
                   ioVars, exitVars>>

\* ProgramTermination() with the default error_code.
MainProgramTermination ==
    /\ variant = "factory" /\ pc = "main" /\ stmt = "end"
    /\ termCode' = 0
    /\ pc' = "pt_prompt"
    /\ UNCHANGED <<variant, debug, unitVars, thrown, person2, stmt, attempts, ret, callVars, objectVars,
                   ioVars, outcome, exitStatus>>

\* The harness returns r to main.
ReturnToMain(r) ==
    /\ ret' = r
    /\ pc' = "main_got"

\* main stores a returned entity in its variable and goes on; the harness
\* call's locals are gone. After a CreateSafely failure it stays at the same
\* object.
MainStore ==
    /\ variant = "factory" /\ pc = "main_got"
    /\ pc' = "main"
    /\ IF ret.kind = "Address"
       THEN address' = ret /\ person' = person /\ stmt' = "person"
                           /\ attempts' = 0
       ELSE IF ret.kind = "Person"
       THEN person' = ret /\ address' = address /\ stmt' = "print"
                          /\ attempts' = 0
       ELSE UNCHANGED <<address, person, stmt, attempts>>
    /\ call' = NoCall
    /\ csResult' = NoValue
    /\ ccResult' = NoValue
    /\ handled' = <<>>
    /\ trace' = <<>>
    /\ stderr' = <<>>
    /\ UNCHANGED <<variant, debug, unitVars, thrown, person2, ret, stdinReady, exitVars>>

\* ------------------------------------------------------------ CreateSafely
\* CreateSafely is entered: its arguments are forwarded to T::Create.
CS_Enter ==
    /\ pc = "cs_enter"
    /\ pc' = "cs_create"
    /\ UNCHANGED <<variant, debug, unitVars, thrown, person2, stmt, attempts, ret, callVars, objectVars,
                   ioVars, exitVars>>

\* auto result = T::Create(std::forward<Args>(args)...);
CS_Create ==
    /\ pc = "cs_create"
    /\ csResult' = Create(call)
    /\ trace' = Append(trace, "Create")
    /\ pc' = "cs_test"
    /\ UNCHANGED <<variant, debug, unitVars, thrown, person2, stmt, attempts, ret, call, ccResult,
                   handled, objectVars, ioVars, exitVars>>


\* CS_Test with a slip: a failure is returned without being reported.
CS_Test_SkipsLog ==
    /\ pc = "cs_test"
    /\ pc' = "cs_return"
    /\ UNCHANGED <<variant, debug, unitVars, thrown, person2, stmt, attempts, ret, callVars, objectVars,
                   ioVars, exitVars>>

\* if (std::holds_alternative<ValidationError>(result))
CS_Test ==
    /\ pc = "cs_test"
    /\ pc' = IF HoldsError(csResult) THEN "cs_log" ELSE "cs_return"
    /\ UNCHANGED <<variant, debug, unitVars, thrown, person2, stmt, attempts, ret, callVars, objectVars,
                   ioVars, exitVars>>

\* A report is handed to Validator::HandleValidationFailure, which returns.
Report(error, context, message) ==
    /\ handled' = Append(handled, ReportOf(error, context, message,
                                            DEFAULT_MAX_LENGTH))
    /\ stderr' = HandleValidationFailure(stderr, error, context, message,
                                         DEFAULT_MAX_LENGTH, debug)
    /\ trace' = Append(trace, "Log")


\* CS_Log with a slip: after the report it goes on to terminate the process.
CS_Log_Terminates ==
    /\ pc = "cs_log"
    /\ Report(csResult.tag, call.context, MsgCreationFailed)
    /\ pc' = "cc_term"
    /\ UNCHANGED <<variant, debug, unitVars, thrown, person2, stmt, attempts, ret, call, csResult,
                   ccResult, objectVars, stdinReady, exitVars>>

\* CS_Log with a slip: the logged failure is re-wrapped as ValidationError::None.
CS_Log_Rewraps ==
    /\ pc = "cs_log"
    /\ Report(csResult.tag, call.context, MsgCreationFailed)
    /\ csResult' = Error("None")
    /\ pc' = "cs_return"
    /\ UNCHANGED <<variant, debug, unitVars, thrown, person2, stmt, attempts, ret, call, ccResult,
                   objectVars, stdinReady, exitVars>>

\* Validator::HandleValidationFailure(std::get<ValidationError>(result),
\*                                    context, "Creation failed");
CS_Log ==
    /\ pc = "cs_log"
    /\ Report(csResult.tag, call.context, MsgCreationFailed)
    /\ pc' = "cs_return"
    /\ UNCHANGED <<variant, debug, unitVars, thrown, person2, stmt, attempts, ret, call, csResult,
                   ccResult, objectVars, stdinReady, exitVars>>

\* return result;  to main, or to CreateAndCheck's `result`
CS_Return ==
    /\ pc = "cs_return"
    /\ IF call.fn = "CreateSafely"
       THEN /\ ReturnToMain(csResult)
            /\ UNCHANGED ccResult
       ELSE /\ ccResult' = csResult
            /\ pc' = "cc_test"
            /\ UNCHANGED ret
    /\ UNCHANGED <<variant, debug, unitVars, thrown, person2, stmt, attempts, call, csResult, handled,
                   trace, objectVars, ioVars, exitVars>>

\* ---------------------------------------------------------- CreateAndCheck
\* if (std::holds_alternative<ValidationError>(result))
CC_Test ==
    /\ pc = "cc_test"
    /\ pc' = IF HoldsError(ccResult) THEN "cc_log" ELSE "cc_get"
    /\ UNCHANGED <<variant, debug, unitVars, thrown, person2, stmt, attempts, ret, callVars, objectVars,
                   ioVars, exitVars>>


\* CC_Log with a slip: ProgramTermination is called before the report is made.
CC_Log_AfterTerminate ==
    /\ pc = "cc_log"
    /\ termCode' = EINVAL
    /\ handled' = Append(handled, ReportOf(ccResult.tag, call.context,
                             MsgCriticalCreationFailure, DEFAULT_MAX_LENGTH))
    /\ stderr' = HandleValidationFailure(stderr, ccResult.tag, call.context,
                     MsgCriticalCreationFailure, DEFAULT_MAX_LENGTH, debug)
    /\ trace' = trace \o <<"Terminate", "Log">>
    /\ pc' = "pt_prompt"
    /\ UNCHANGED <<variant, debug, unitVars, thrown, person2, stmt, attempts, ret, call, csResult,
                   ccResult, objectVars, stdinReady, outcome, exitStatus>>

\* CC_Log with a slip: the second report loses the context.
CC_Log_NoContext ==
    /\ pc = "cc_log"
    /\ Report(ccResult.tag, <<>>, MsgCriticalCreationFailure)
    /\ pc' = "cc_term"
    /\ UNCHANGED <<variant, debug, unitVars, thrown, person2, stmt, attempts, ret, call, csResult,
                   ccResult, objectVars, stdinReady, exitVars>>

\* Validator::HandleValidationFailure(std::get<ValidationError>(result),
\*                                    context, "Critical Creation Failure");
CC_Log ==
    /\ pc = "cc_log"
    /\ Report(ccResult.tag, call.context, MsgCriticalCreationFailure)
    /\ pc' = "cc_term"
    /\ UNCHANGED <<variant, debug, unitVars, thrown, person2, stmt, attempts, ret, call, csResult,
                   ccResult, objectVars, stdinReady, exitVars>>


\* CC_Terminate with a slip: ProgramTermination is not called.
CC_Terminate_Skipped ==
    /\ pc = "cc_term"
    /\ pc' = "cc_get"
    /\ UNCHANGED <<variant, debug, unitVars, thrown, person2, stmt, attempts, ret, callVars, objectVars,
                   ioVars, exitVars>>

\* ProgramTermination(std::make_error_code(std::errc::invalid_argument));
CC_Terminate ==
    /\ pc = "cc_term"
    /\ termCode' = EINVAL
    /\ trace' = Append(trace, "Terminate")
    /\ pc' = "pt_prompt"
    /\ UNCHANGED <<variant, debug, unitVars, thrown, person2, stmt, attempts, ret, call, csResult,
                   ccResult, handled, objectVars, ioVars, outcome, exitStatus>>

\* T created_object = std::get<T>(result);  std::get on a variant that holds
\* the other alternative throws std::bad_variant_access, which nothing catches.
CC_Get ==
    /\ pc = "cc_get"
    /\ IF HoldsError(ccResult)
       THEN /\ outcome' = "abort"
            /\ pc' = "exited"
       ELSE /\ pc' = "cc_return"
            /\ UNCHANGED outcome
    /\ UNCHANGED <<variant, debug, unitVars, thrown, person2, stmt, attempts, ret, callVars, objectVars,
                   ioVars, termCode, exitStatus>>

\* return created_object;
CC_Return ==
    /\ pc = "cc_return"
    /\ ReturnToMain(ccResult)
    /\ UNCHANGED <<variant, debug, unitVars, thrown, person2, stmt, attempts, callVars, objectVars,
                   ioVars, exitVars>>

\* ------------------------------------------------------ ProgramTermination
\* std::cout << "\nPress Enter to exit..."; std::cin.clear();
PT_Prompt ==
    /\ pc = "pt_prompt"
    /\ pc' = "pt_get"
    /\ UNCHANGED <<variant, debug, unitVars, thrown, person2, stmt, attempts, ret, callVars, objectVars,
                   ioVars, exitVars>>

\* The user presses Enter (or std::cin reaches its end).
EnterPressed ==
    /\ pc = "pt_get"
    /\ ~stdinReady
    /\ stdinReady' = TRUE
    /\ UNCHANGED <<variant, debug, unitVars, thrown, person2, pc, stmt, attempts, ret, callVars,
                   objectVars, stderr, exitVars>>

\* std::cin.get(); returns once there is something to read.
PT_Get ==
    /\ pc = "pt_get"
    /\ stdinReady
    /\ pc' = "pt_exit"
    /\ UNCHANGED <<variant, debug, unitVars, thrown, person2, stmt, attempts, ret, callVars, objectVars,
                   ioVars, exitVars>>

\* PT_Exit with a slip: the error_code is dropped.
PT_Exit_AlwaysSuccess ==
    /\ pc = "pt_exit"
    /\ exitStatus' = EXIT_SUCCESS
    /\ outcome' = "exit"
    /\ trace' = Append(trace, "Exit")
    /\ pc' = "exited"
    /\ UNCHANGED <<variant, debug, unitVars, thrown, person2, stmt, attempts, ret, call,
                   csResult, ccResult, handled, objectVars, ioVars, termCode>>

\* std::exit(error_code ? error_code.value() : EXIT_SUCCESS);  never returns.
PT_Exit ==
    /\ pc = "pt_exit"
    /\ exitStatus' = IF termCode # 0 THEN termCode ELSE EXIT_SUCCESS
    /\ outcome' = "exit"
    /\ trace' = Append(trace, "Exit")
    /\ pc' = "exited"
    /\ UNCHANGED <<variant, debug, unitVars, thrown, person2, stmt, attempts, ret, call, csResult,
                   ccResult, handled, objectVars, ioVars, termCode>>

\* ------------------------------------ main of the ctor and exc programs
\* std::cerr after the output a constructor call made: a report goes through
\* HandleValidationFailure (in the exc program: "[Validation Failure] " and
\* what(), when the flag is on), a line of the constructor's own always.
RECURSIVE Emit(_, _, _)
Emit(err, out, dbg) ==
    IF Len(out) = 0 THEN err
    ELSE LET e == Head(out)
             next == IF ~e.report THEN Append(err, e.message)
                     ELSE IF e.error = "invalid_argument"
                     THEN (IF dbg THEN Append(err, LogPrefix \o e.message)
                           ELSE err)
                     ELSE HandleValidationFailure(err, e.error, e.context,
                                                  e.message, e.max, dbg)
         IN  Emit(next, Tail(out), dbg)

Reports(out) == SelectSeq(out, LAMBDA e : e.report)

\* A declaration `Address address = ...` / `Person person = ...` of main (a
\* variable is declared once): an exception that leaves the constructor is caught nowhere, so the program
\* is aborted and no object exists.
Declare(slot, r) ==
    /\ handled' = Reports(r.out)
    /\ stderr' = Emit(<<>>, r.out, debug)
    /\ IF r.obj.kind = "Thrown"
       THEN /\ outcome' = "abort"
            /\ pc' = "exited"
            /\ UNCHANGED <<address, person, person2>>
       ELSE /\ pc' = "declared"
            /\ UNCHANGED outcome
            /\ address' = IF slot = "address" THEN r.obj ELSE address
            /\ person' = IF slot = "person" THEN r.obj ELSE person
            /\ person2' = IF slot = "person2" THEN r.obj ELSE person2
    /\ thrown' = IF r.obj.kind = "Thrown" THEN r.obj ELSE thrown
    /\ UNCHANGED <<variant, debug, unitVars, stmt, attempts, call, csResult, ccResult,
                   ret, trace, termCode, stdinReady, exitStatus>>

\* main goes on to its next statement; handled and stderr record one
\* constructor call only.
NextStatement ==
    /\ pc = "declared"
    /\ pc' = "main"
    /\ handled' = <<>>
    /\ stderr' = <<>>
    /\ UNCHANGED <<variant, debug, unitVars, thrown, person2, stmt, attempts, call, csResult, ccResult,
                   ret, trace, objectVars, stdinReady, exitVars>>

K_ConstructAddress ==
    /\ variant = "ctor" /\ pc = "main"
    /\ address.kind = "None"
    /\ \E street \in Strings, city \in Strings,
          postal_code \in {Nullopt} \cup {Some(p) : p \in PostalCodes} :
          Declare("address", KAddressCtor(street, city, postal_code))

K_DefaultAddress ==
    /\ variant = "ctor" /\ pc = "main"
    /\ address.kind = "None"
    /\ Declare("address", KAddressDefault)

\* K_ResetAddress with a slip: the Persons refer to main's Address instead
\* of holding a copy, so they see the reset.
K_ResetAddress_Aliased ==
    /\ variant = "ctor" /\ pc = "main"
    /\ address.kind = "Address"
    /\ address' = KResetAddress(address)
    /\ person' = IF person.kind = "Person"
                 THEN [person EXCEPT !.address = KResetAddress(address)]
                 ELSE person
    /\ person2' = IF person2.kind = "Person"
                  THEN [person2 EXCEPT !.address = KResetAddress(address)]
                  ELSE person2
    /\ UNCHANGED <<variant, debug, unitVars, thrown, pc, stmt, attempts, ret, callVars,
                   ioVars, exitVars>>

\* address.ResetToDefaults()
K_ResetAddress ==
    /\ variant = "ctor" /\ pc = "main"
    /\ address.kind = "Address"
    /\ address' = KResetAddress(address)
    /\ UNCHANGED <<variant, debug, unitVars, thrown, person2, pc, stmt, attempts, ret, callVars, person,
                   ioVars, exitVars>>

K_ConstructPerson ==
    /\ variant = "ctor" /\ pc = "main"
    /\ person.kind = "None"
    /\ address.kind = "Address"
    /\ \E name \in Strings, age \in RawAges :
          Declare("person", KPersonCtor(name, ToUint8(age), address))

K_ConstructPersonRaw ==
    /\ variant = "ctor" /\ pc = "main"
    /\ person.kind = "None"
    /\ \E name \in Strings, age \in RawAges, street \in Strings,
          city \in Strings, postal_code \in PostalCodes :
          Declare("person", KPersonCtorRaw(name, ToUint8(age), street, city,
                                           postal_code))

K_DefaultPerson ==
    /\ variant = "ctor" /\ pc = "main"
    /\ person.kind = "None"
    /\ Declare("person", KPersonDefault)

\* person.ResetToDefaults()
K_ResetPerson ==
    /\ variant = "ctor" /\ pc = "main"
    /\ person.kind = "Person"
    /\ person' = KResetPerson(person)
    /\ UNCHANGED <<variant, debug, unitVars, thrown, person2, pc, stmt, attempts, ret, callVars, address,
                   ioVars, exitVars>>

E_ConstructAddress ==
    /\ variant = "exc" /\ pc = "main"
    /\ address.kind = "None"
    /\ \E street \in Strings, city \in Strings, postal_code \in PostalCodes :
          Declare("address", EAddressCtor(street, city, postal_code))

E_DefaultAddress ==
    /\ variant = "exc" /\ pc = "main"
    /\ address.kind = "None"
    /\ Declare("address", EAddressDefault)

E_ConstructPerson ==
    /\ variant = "exc" /\ pc = "main"
    /\ person.kind = "None"
    /\ address.kind = "Address"
    /\ \E name \in Strings, age \in RawAges :
          Declare("person", EPersonCtor(name, ToUint8(age), address))

E_ConstructPersonRaw ==
    /\ variant = "exc" /\ pc = "main"
    /\ person.kind = "None"
    /\ \E name \in Strings, age \in RawAges, street \in Strings,
          city \in Strings, postal_code \in PostalCodes :
          Declare("person", EPersonCtorRaw(name, ToUint8(age), street, city,
                                           postal_code))

E_DefaultPerson ==
    /\ variant = "exc" /\ pc = "main"
    /\ person.kind = "None"
    /\ Declare("person", EPersonDefault)

\* The end of main: ProgramTermination() in the ctor program, cmdOnEnd() and
\* return 0 in the exc program; both wait for Enter and end with status 0.
OtherMainEnd ==
    /\ variant \in {"ctor", "exc"} /\ pc = "main"
    /\ termCode' = 0
    /\ pc' = "pt_prompt"
    /\ UNCHANGED <<variant, debug, unitVars, thrown, person2, stmt, attempts, ret, callVars, objectVars,
                   ioVars, outcome, exitStatus>>

\* ------------------------------------------------------------------ the run
Next ==
    \/ MainCreateAddress
    \/ MainCreatePerson
    \/ MainStore
    \/ MainGiveUp
    \/ MainPrintPerson
    \/ MainProgramTermination
    \/ CS_Enter
    \/ CS_Create
    \/ CS_Test
    \/ CS_Log
    \/ CS_Return
    \/ CC_Test
    \/ CC_Log
    \/ CC_Terminate
    \/ CC_Get
    \/ CC_Return
    \/ PT_Prompt
    \/ EnterPressed
    \/ PT_Get
    \/ PT_Exit
    \/ NextStatement
    \/ K_ConstructAddress
    \/ K_DefaultAddress
    \/ K_ResetAddress
    \/ K_ConstructPerson
    \/ K_ConstructPersonRaw
    \/ K_DefaultPerson
    \/ K_ResetPerson
    \/ E_ConstructAddress
    \/ E_DefaultAddress
    \/ E_ConstructPerson
    \/ E_ConstructPersonRaw
    \/ E_DefaultPerson
    \/ OtherMainEnd

Spec == Init /\ [][Next]_vars

\* The exc program alone (src/unnamed/part_003, lines 252-445).
InitExc == Init /\ variant = "exc"

NextExc ==
    \/ E_ConstructAddress
    \/ E_DefaultAddress
    \/ E_ConstructPerson
    \/ E_ConstructPersonRaw
    \/ E_DefaultPerson
    \/ NextStatement
    \/ OtherMainEnd
    \/ PT_Prompt
    \/ EnterPressed
    \/ PT_Get
    \/ PT_Exit

SpecExc == InitExc /\ [][NextExc]_vars

\* ------------------------------------- two Persons built from one Address
\* The constructor program with main's two Person variables (person1 and
\* person2 of the source), both built from main's Address, which is later
\* reset or leaves its scope.
Gone == [kind |-> "Gone"]

\* Person person2 = Person(name, age, address), from the Address person was
\* built from
K_ConstructPerson2 ==
    /\ variant = "ctor" /\ pc = "main"
    /\ person2.kind = "None"
    /\ person.kind = "Person"
    /\ address.kind = "Address" /\ person.address = address
    /\ \E name \in Strings, age \in RawAges :
          Declare("person2", KPersonCtor(name, ToUint8(age), address))

\* person2.ResetToDefaults()
K_ResetPerson2 ==
    /\ variant = "ctor" /\ pc = "main"
    /\ person2.kind = "Person"
    /\ person2' = KResetPerson(person2)
    /\ UNCHANGED <<variant, debug, unitVars, thrown, pc, stmt, attempts, ret, callVars,
                   address, person, ioVars, exitVars>>

\* The scope of main's Address ends: ~Address() runs, the object is gone.
K_AddressScopeEnd ==
    /\ variant = "ctor" /\ pc = "main"
    /\ address.kind = "Address"
    /\ person.kind = "Person"
    /\ address' = Gone
    /\ UNCHANGED <<variant, debug, unitVars, thrown, person2, pc, stmt, attempts, ret,
                   callVars, person, ioVars, exitVars>>

InitPersons == Init /\ variant = "ctor"

NextPersons ==
    \/ K_ConstructAddress
    \/ K_ResetAddress
    \/ K_AddressScopeEnd
    \/ K_ConstructPerson
    \/ K_ConstructPerson2
    \/ K_ResetPerson
    \/ K_ResetPerson2
    \/ NextStatement

SpecPersons == InitPersons /\ [][NextPersons]_vars

\* --------------------------------------------------------- direct calls
\* A caller that applies one function of the program directly: Create twice
\* with the same arguments and once with others, GetErrorMessage twice, or
\* HandleValidationFailure once. unitIn holds the arguments under test.
UnitAddresses ==
    {AddressObject(str, str, Some(1)) : str \in Strings \ {<<>>}}

CreateCalls ==
    {AddressCall("Create", <<>>, street, city, postal_code) :
        street \in Strings, city \in Strings, postal_code \in PostalCodes}
    \cup {PersonCall("Create", <<>>, name, age, addr) :
        name \in Strings, age \in RawAges, addr \in UnitAddresses}

\* max_length arguments: none, one, ten, and both sides of the longest text.
MaxLengths == {0, 1, 10, MaxFieldLen - 1, MaxFieldLen, DEFAULT_MAX_LENGTH}

LoggedTags == {"EmptyStreet", "InvalidAge", "None"}

\* The values main and other callers hand to max3: mutually comparable
\* numbers (operator> of int, or of double without NaN).
Numbers == {1, 2, 3}

\* template<typename T> T max3(T first, T second, T third)
max3(first, second, third) ==
    IF first > second
    THEN (IF first > third THEN first ELSE third)
    ELSE second

\* ------------------------------------------- src/unnamed/part_000: vehicles
CarObject(engine_cc) == [kind |-> "Car", m_engine_cc |-> engine_cc]
TruckObject(max_weight) == [kind |-> "Truck", m_max_weight |-> max_weight]

\* Car::CalculateTrafficTax with the multiplication done before the division
CarTax_MultiplyFirst(m_engine_cc) ==
    IF m_engine_cc <= 1000 THEN 140
    ELSE 140 + ((m_engine_cc - 1000) * 10) \div 100

\* Car::CalculateTrafficTax() const
CarTax(m_engine_cc) ==
    IF m_engine_cc <= 1000 THEN 140
    ELSE 140 + ((m_engine_cc - 1000) \div 100) * 10

\* Truck::CalculateTrafficTax() const
TruckTax(m_max_weight) ==
    IF m_max_weight <= 3000 THEN 300
    ELSE IF m_max_weight <= 6000 THEN 400 ELSE 600

\* vehicle->CalculateTrafficTax(), dispatched on the object's class
CalculateTrafficTax(vehicle) ==
    IF vehicle.kind = "Car" THEN CarTax(vehicle.m_engine_cc)
    ELSE TruckTax(vehicle.m_max_weight)

\* Vehicle::CalculateTotalTax(vehicles, size, index): the tax returned and the
\* indices of the entries read. The array's entry i is vehicles[i + 1].
RECURSIVE CalculateTotalTax(_, _, _)
CalculateTotalTax(vehicles, size, index) ==
    IF index = size
    THEN [tax |-> 0, reads |-> {}]
    ELSE LET rest == CalculateTotalTax(vehicles, size, index + 1)
         IN  [tax |-> CalculateTrafficTax(vehicles[index + 1]) + rest.tax,
              reads |-> {index} \cup rest.reads]

VehicleObjects ==
    {CarObject(cc) : cc \in {1000, 1001, 1099, 1100, 65535}}
    \cup {TruckObject(w) : w \in {3000, 3001, 6000, 6001}}

\* Arrays of MaxVehicles owning pointers, all filled
VehicleArrays == [1..MaxVehicles -> VehicleObjects]

UnitInputs ==
    CreateCalls
    \cup {[fn |-> "CalculateTotalTax", vehicles |-> v, size |-> n] :
           v \in VehicleArrays, n \in 0..MaxVehicles}
    \cup {[fn |-> "max3", first |-> a, second |-> b, third |-> c] :
           a \in Numbers, b \in Numbers, c \in Numbers}
    \cup {[fn |-> "GetErrorMessage", error |-> error] : error \in AllTags}
    \cup {[fn |-> "HandleValidationFailure", error |-> error,
           context |-> context, additional_info |-> info, max_length |-> m] :
           error \in LoggedTags, context \in FieldTexts, info \in FieldTexts,
           m \in MaxLengths}

InitUnit ==
    /\ variant = "unit"
    /\ unitIn \in UnitInputs
    /\ debug \in (IF unitIn.fn = "HandleValidationFailure" THEN BOOLEAN
                  ELSE {FALSE})
    /\ pc = "unit"
    /\ stmt = "ops"
    /\ attempts = 0
    /\ call = NoCall
    /\ csResult = NoValue
    /\ ccResult = NoValue
    /\ ret = NoValue
    /\ address = NoValue
    /\ person = NoValue
    /\ person2 = NoValue
    /\ thrown = NoValue
    /\ handled = <<>>
    /\ trace = <<>>
    /\ stderr = <<>>
    /\ termCode = 0
    /\ stdinReady = FALSE
    /\ outcome = "running"
    /\ exitStatus = 0
    /\ unitOut = <<>>
    /\ ExercisesIdle

\* What std::cout shows of a Create result: operator<< and Print... of the
\* entity; nothing for an error.
Printed(v) ==
    IF v.kind = "Address" THEN <<AddressToStream(v), PrintAddress(v)>>
    ELSE IF v.kind = "Person" THEN <<PersonToStream(v), PrintPerson(v)>>
    ELSE <<>>

CreateEntry(who, c) ==
    LET result == Create(c)
    IN  [who |-> who, args |-> c, result |-> result, text |-> Printed(result)]

Entries(who) == {i \in 1..Len(unitOut) : unitOut[i].who = who}

unitFrame ==
    <<variant, debug, pc, stmt, attempts, call, csResult, ccResult, ret,
      address, person, person2, thrown, handled, trace, termCode, stdinReady,
      outcome, exitStatus, unitIn, exerciseVars>>

\* T::Create(unitIn's arguments), at most twice
U_Create ==
    /\ variant = "unit" /\ unitIn.fn = "Create"
    /\ Cardinality(Entries("same")) < 2
    /\ unitOut' = Append(unitOut, CreateEntry("same", unitIn))
    /\ UNCHANGED <<unitFrame, stderr>>

\* Some other Create call, before, between or after those two
U_CreateOther ==
    /\ variant = "unit" /\ unitIn.fn = "Create"
    /\ Entries("other") = {}
    /\ \E c \in CreateCalls : unitOut' = Append(unitOut, CreateEntry("other", c))
    /\ UNCHANGED <<unitFrame, stderr>>

\* Validator::GetErrorMessage(unitIn.error), at most twice
U_GetErrorMessage ==
    /\ variant = "unit" /\ unitIn.fn = "GetErrorMessage"
    /\ Len(unitOut) < 2
    /\ unitOut' = Append(unitOut, GetErrorMessage(unitIn.error))
    /\ UNCHANGED <<unitFrame, stderr>>

\* Validator::HandleValidationFailure(error, context, additional_info,
\* max_length), once; it returns.
U_HandleValidationFailure ==
    /\ variant = "unit" /\ unitIn.fn = "HandleValidationFailure"
    /\ unitOut = <<>>
    /\ stderr' = HandleValidationFailure(stderr, unitIn.error, unitIn.context,
                     unitIn.additional_info, unitIn.max_length, debug)
    /\ unitOut' = <<"returned">>
    /\ UNCHANGED unitFrame

\* std::cout << max3<T>(first, second, third), once
U_max3 ==
    /\ variant = "unit" /\ unitIn.fn = "max3"
    /\ unitOut = <<>>
    /\ unitOut' = <<max3(unitIn.first, unitIn.second, unitIn.third)>>
    /\ UNCHANGED <<unitFrame, stderr>>

\* Vehicle::CalculateTotalTax(vehicles, size), index defaulted to 0, once
U_CalculateTotalTax ==
    /\ variant = "unit" /\ unitIn.fn = "CalculateTotalTax"
    /\ unitOut = <<>>
    /\ unitOut' = <<CalculateTotalTax(unitIn.vehicles, unitIn.size, 0)>>
    /\ UNCHANGED <<unitFrame, stderr>>

NextUnit ==
    \/ U_CalculateTotalTax
    \/ U_Create
    \/ U_CreateOther
    \/ U_GetErrorMessage
    \/ U_HandleValidationFailure
    \/ U_max3

SpecUnit == InitUnit /\ [][NextUnit]_vars

\* ============================================== src/2_sphere: class Sphere
\* Everything of the harness programs that the other exercises never touch.
otherFrame ==
    <<variant, debug, stmt, attempts, call, csResult, ccResult, ret, address,
      person, person2, thrown, handled, trace, stderr, termCode, stdinReady,
      exitStatus, unitIn>>

\* The harness programs' variables while another exercise runs.
ProgramIdle ==
    /\ debug = FALSE
    /\ pc = "main"
    /\ stmt = "ops"
    /\ attempts = 0
    /\ call = NoCall
    /\ csResult = NoValue
    /\ ccResult = NoValue
    /\ ret = NoValue
    /\ address = NoValue
    /\ person = NoValue
    /\ person2 = NoValue
    /\ thrown = NoValue
    /\ handled = <<>>
    /\ trace = <<>>
    /\ stderr = <<>>
    /\ termCode = 0
    /\ stdinReady = FALSE
    /\ outcome = "running"
    /\ exitStatus = 0
    /\ unitIn = NoUnit
    /\ unitOut = <<>>

\* A double: a number, or NaN, which every ordered comparison answers false.
Double(v) == [nan |-> FALSE, v |-> v]
NaN == [nan |-> TRUE, v |-> 0]
LessEq(a, b) == ~a.nan /\ ~b.nan /\ a.v <= b.v
Greater(a, b) == ~a.nan /\ ~b.nan /\ a.v > b.v

SPHERE_FALLBACK_RADIUS == 10
SPHERE_RADIUS_LIMIT == 1025867
MsgFallbackRadius == "Fallback radius set to: 10"

\* The radii a caller may pass
Radii ==
    {Double(v) : v \in {-1, 0, 1, 10, 999999, 1000000, 1025867, 1025868}}
    \cup {NaN}

\* Sphere::ValidateParameter throws std::invalid_argument
ValidateParameterThrows(radius) ==
    \/ LessEq(radius, Double(0))
    \/ Greater(radius, Double(SPHERE_RADIUS_LIMIT))

\* Sphere::Sphere(double radius): the object built and what std::cout shows
SphereCtor(radius) ==
    IF ValidateParameterThrows(radius)
    THEN [m_radius |-> Double(SPHERE_FALLBACK_RADIUS), cout |-> <<MsgFallbackRadius>>]
    ELSE [m_radius |-> radius, cout |-> <<>>]

\* Sphere::SetRadius(double radius) on a sphere whose radius is m_radius
SetRadius(m_radius, radius) ==
    IF ValidateParameterThrows(radius) THEN m_radius ELSE radius

sphereFrame ==
    <<otherFrame, pc, outcome, images, sorted, people, loopI, choice, created>>

\* In the exercises unitOut holds what the last operation wrote to std::cout.
\* spheres.emplace_back(input_radius)
S_Construct ==
    /\ variant = "sphere"
    /\ Len(spheres) < MaxSpheres
    /\ \E radius \in Radii :
          LET built == SphereCtor(radius)
          IN  /\ spheres' = Append(spheres, built.m_radius)
              /\ unitOut' = built.cout
    /\ UNCHANGED sphereFrame

\* Sphere()
S_DefaultConstruct ==
    /\ variant = "sphere"
    /\ Len(spheres) < MaxSpheres
    /\ spheres' = Append(spheres, Double(SPHERE_FALLBACK_RADIUS))
    /\ unitOut' = <<>>
    /\ UNCHANGED sphereFrame

\* spheres[k].SetRadius(radius)
S_SetRadius ==
    /\ variant = "sphere"
    /\ \E k \in 1..Len(spheres), radius \in Radii :
          spheres' = [spheres EXCEPT ![k] = SetRadius(spheres[k], radius)]
    /\ unitOut' = <<>>
    /\ UNCHANGED sphereFrame

InitSphere == variant = "sphere" /\ ProgramIdle /\ ExercisesIdle

NextSphere ==
    \/ S_Construct
    \/ S_DefaultConstruct
    \/ S_SetRadius

SpecSphere == InitSphere /\ [][NextSphere]_vars

\* ================================================ src/3_image: class Image
IMAGE_FALLBACK_WIDTH == 1920
IMAGE_FALLBACK_HEIGHT == 1080
IMAGE_FALLBACK_DEPTH == 6
MIN_WIDTH == 40
MAX_WIDTH == 7680
MIN_HEIGHT == 25
MAX_HEIGHT == 4320
MAX_DEPTH == 128
MsgFallbackImage == "Fallback dimensions set to '1920x1080, 6'."
TxtDescending == "Descending Order:"
TxtAscending == "Ascending Order:"

ImageObject(width, height, color_depth) ==
    [m_width |-> width, m_height |-> height, m_color_depth |-> color_depth]

\* Image::ValidateParameters throws std::invalid_argument; width and height
\* are std::optional<std::uint16_t>.
ValidateParametersThrows(width, height, color_depth) ==
    \/ \/ color_depth = 0
       \/ color_depth > MAX_DEPTH
       \/ ~(color_depth = 1 \/ color_depth = 3) /\ (color_depth % 2) # 0
    \/ /\ width.has
       /\ \/ width.val < MIN_WIDTH
          \/ width.val > MAX_WIDTH
          \/ (width.val % 2) # 0
    \/ /\ height.has
       /\ \/ height.val < MIN_HEIGHT
          \/ height.val > MAX_HEIGHT
          \/ (height.val % 2) # 0

\* Image::Image(width, height, color_depth): the object and std::cout's line
ImageCtor(width, height, color_depth) ==
    IF ValidateParametersThrows(Some(width), Some(height), color_depth)
    THEN [image |-> ImageObject(IMAGE_FALLBACK_WIDTH, IMAGE_FALLBACK_HEIGHT,
                                IMAGE_FALLBACK_DEPTH),
          cout |-> <<MsgFallbackImage>>]
    ELSE [image |-> ImageObject(width, height, color_depth), cout |-> <<>>]

\* Image::SetColorDepth without its validation
SetColorDepth_NoValidation(image, color_depth) ==
    [image EXCEPT !.m_color_depth = color_depth]

\* Image::SetColorDepth(color_depth) on `image`
SetColorDepth(image, color_depth) ==
    IF ValidateParametersThrows(Nullopt, Nullopt, color_depth)
    THEN image
    ELSE [image EXCEPT !.m_color_depth = color_depth]

\* Sizes are written in four 16-bit limbs, most significant first, so that a
\* 64-bit unsigned long and a product beyond 32 bits can be held.
LIMB == 65536
LimbLess(a, b) ==
    \E k \in 1..4 : a[k] < b[k] /\ \A j \in 1..(k - 1) : a[j] = b[j]

\* The mathematical product m_width * m_height * m_color_depth
TrueSize(image) ==
    LET p == image.m_width * image.m_height
        low == (p % LIMB) * image.m_color_depth
        high == (p \div LIMB) * image.m_color_depth + (low \div LIMB)
    IN  <<0, high \div LIMB, high % LIMB, low % LIMB>>

\* The product does not fit the int the multiplication is done in.
Overflows(image) ==
    LET t == TrueSize(image) IN t[2] > 0 \/ t[3] >= LIMB \div 2

\* Image::GetSize() where the int multiplication wraps: the low 32 bits of the
\* product, sign-extended by the conversion to unsigned long.
GetSize(image) ==
    LET t == TrueSize(image)
    IN  IF t[3] >= LIMB \div 2
        THEN <<LIMB - 1, LIMB - 1, t[3], t[4]>>
        ELSE <<0, 0, t[3], t[4]>>

\* A signed overflow is undefined: the build either wraps or traps.
GetSizeMayTrap(v) == \E k \in 1..Len(v) : Overflows(v[k])

CompareAscending(a, b) == LimbLess(GetSize(a), GetSize(b))

\* CompareDescending with the comparison of CompareAscending
CompareDescending_AsAscending(a, b) == LimbLess(GetSize(a), GetSize(b))

CompareDescending(a, b) == LimbLess(GetSize(b), GetSize(a))

\* std::sort rearranges the elements of v: the arrangements it can leave
Arrangements(v) ==
    {[k \in 1..Len(v) |-> v[f[k]]] : f \in Permutations(1..Len(v))}

\* std::sort(images.begin(), images.end(), CompareAscending): an arrangement
\* in which no element is ordered before its predecessor; elements the
\* comparison holds equal may land in any order.
SortAscending(v) ==
    {r \in Arrangements(v) :
        \A k \in 1..(Len(v) - 1) : ~CompareAscending(r[k + 1], r[k])}

\* std::sort(images.begin(), images.end(), CompareDescending)
SortDescending(v) ==
    {r \in Arrangements(v) :
        \A k \in 1..(Len(v) - 1) : ~CompareDescending(r[k + 1], r[k])}

\* operator<< of an Image, as PrintVector streams it
ImageLine(image) ==
    [width |-> image.m_width, height |-> image.m_height,
     depth |-> image.m_color_depth, size |-> GetSize(image)]

\* Constructor arguments: every valid combination, and combinations with an
\* invalid width, height or depth.
ValidWidths == {40, 80, 7680}
ValidHeights == {26, 4320}
ValidDepths == {1, 2, 3, 66, 128}
InvalidWidths == {38, 41, 7682}
InvalidHeights == {24, 27, 4322}
InvalidDepths == {0, 5, 129}
SetDepths == ValidDepths \cup InvalidDepths
ImageArgs ==
    (ValidWidths \X ValidHeights \X ValidDepths)
    \cup (InvalidWidths \X {26} \X {2})
    \cup ({40} \X InvalidHeights \X {2})
    \cup ({40} \X {26} \X InvalidDepths)
    \cup {<<38, 24, 0>>}

imageFrame == <<otherFrame, spheres, people, loopI, choice, created>>

\* images.emplace_back(width, height, color_depth)
I_Construct ==
    /\ variant = "image" /\ pc = "main"
    /\ Len(images) < MaxImages
    /\ \E a \in ImageArgs :
          LET built == ImageCtor(a[1], a[2], a[3])
          IN  /\ images' = Append(images, built.image)
              /\ unitOut' = built.cout
    /\ UNCHANGED <<imageFrame, pc, outcome, sorted>>

\* images.emplace_back()
I_DefaultConstruct ==
    /\ variant = "image" /\ pc = "main"
    /\ Len(images) < MaxImages
    /\ images' = Append(images, ImageObject(IMAGE_FALLBACK_WIDTH,
                             IMAGE_FALLBACK_HEIGHT, IMAGE_FALLBACK_DEPTH))
    /\ unitOut' = <<>>
    /\ UNCHANGED <<imageFrame, pc, outcome, sorted>>

\* images[k].SetColorDepth(color_depth)
I_SetColorDepth ==
    /\ variant = "image" /\ pc = "main"
    /\ \E k \in 1..Len(images), color_depth \in SetDepths :
          images' = [images EXCEPT ![k] = SetColorDepth(images[k], color_depth)]
    /\ unitOut' = <<>>
    /\ UNCHANGED <<imageFrame, pc, outcome, sorted>>

\* std::sort on images, then `return images`: with two or more images every
\* one is compared, and the call aborts where an overflowing GetSize() traps.
Sorting(fn, results) ==
    /\ outcome = "running"
    /\ pc \in {"main", "sorted", "printed"}
    /\ \/ /\ Len(images) >= 2 /\ GetSizeMayTrap(images)
          /\ outcome' = "abort"
          /\ pc' = "aborted"
          /\ UNCHANGED <<images, sorted>>
       \/ /\ \E r \in results : images' = r /\ sorted' = r
          /\ pc' = "sorted"
          /\ UNCHANGED outcome
    /\ unitIn' = [fn |-> fn, images |-> images]
    /\ unitOut' = <<>>
    /\ UNCHANGED <<variant, debug, stmt, attempts, call, csResult, ccResult,
                   ret, address, person, person2, thrown, handled, trace,
                   stderr, termCode, stdinReady, exitStatus, spheres, people,
                   loopI, choice, created>>

\* Sort(images)
I_Sort ==
    /\ variant = "image"
    /\ Sorting("Sort", SortAscending(images))

\* ReverseSort(images)
I_ReverseSort ==
    /\ variant = "image"
    /\ Sorting("ReverseSort", SortDescending(images))

\* PrintVector(images, text); the temporary Sort returned is gone by now.
I_PrintVector ==
    /\ variant = "image" /\ outcome = "running"
    /\ pc = "sorted"
    /\ \/ /\ GetSizeMayTrap(images)
          /\ outcome' = "abort"
          /\ pc' = "aborted"
          /\ unitOut' = <<>>
       \/ /\ unitOut' = <<IF unitIn.fn = "ReverseSort" THEN TxtDescending
                           ELSE TxtAscending>>
                         \o [k \in 1..Len(images) |-> ImageLine(images[k])]
          /\ pc' = "printed"
          /\ UNCHANGED outcome
    /\ sorted' = <<>>
    /\ UNCHANGED <<imageFrame, images>>

InitImage ==
    /\ variant = "image"
    /\ ProgramIdle
    /\ ExercisesIdle

NextImage ==
    \/ I_Construct
    \/ I_DefaultConstruct
    \/ I_SetColorDepth
    \/ I_Sort
    \/ I_ReverseSort
    \/ I_PrintVector

SpecImage == InitImage /\ [][NextImage]_vars

\* ==================== src/6_teacher_footballer: CollectPeople (and part_000:
\* CollectVehicles, the same loop over vehicles)
\* std::size_t arithmetic is modulo SIZE_MAX + 1; the model's size_t is as wide
\* as the integers of TLC.
SIZE_MAX == 2147483647
Inc(i) == IF i = SIZE_MAX THEN 0 ELSE i + 1

\* --i that leaves i alone
Dec_NoOp(i) == i

Dec(i) == IF i = 0 THEN SIZE_MAX ELSE i - 1

MsgInvalidChoice == "Invalid choice. Please, try again."

\* An empty std::unique_ptr
NullPtr == [kind |-> "null"]

\* What std::cin >> choice leaves in `choice`: a number typed, 0 after a failed
\* extraction, or (the stream already failed, `choice` uninitialized) anything.
Choices == {-1, 0, 1, 2, 3}

\* The object the switch creates for a valid choice; the fields read from the
\* input do not decide whether it exists.
MakeUnique(fn, c) ==
    IF fn = "CollectPeople"
    THEN [kind |-> IF c = 1 THEN "Teacher" ELSE "Footballer"]
    ELSE [kind |-> IF c = 1 THEN "Car" ELSE "Truck"]

collectFrame ==
    <<variant, debug, stmt, attempts, call, csResult, ccResult, ret, address,
      person, person2, thrown, handled, trace, termCode, stdinReady,
      exitStatus, unitIn, unitOut, spheres, images, sorted>>

\* CollectPeople(people, size): std::size_t i{0}; i < size
CP_Call ==
    /\ variant = "collect" /\ pc = "main"
    /\ loopI' = 0
    /\ pc' = IF 0 < Len(people) THEN "read" ELSE "returned"
    /\ UNCHANGED <<collectFrame, outcome, stderr, people, choice, created>>

\* std::cin >> choice; at most MaxRetries invalid choices are entered
CP_Read ==
    /\ variant = "collect" /\ pc = "read"
    /\ \E c \in Choices :
          /\ c \in {1, 2} \/ Len(stderr) < MaxRetries
          /\ choice' = c
    /\ pc' = "switch"
    /\ UNCHANGED <<collectFrame, outcome, stderr, people, loopI, created>>

\* switch (choice)
CP_Switch ==
    /\ variant = "collect" /\ pc = "switch"
    /\ IF choice \in {1, 2}
       THEN /\ people' = [people EXCEPT ![loopI + 1] = MakeUnique(unitIn.fn, choice)]
            /\ created' = created + 1
            /\ UNCHANGED <<stderr, loopI>>
       ELSE /\ stderr' = Append(stderr, MsgInvalidChoice)
            /\ loopI' = Dec(loopI)
            /\ UNCHANGED <<people, created>>
    /\ pc' = "incr"
    /\ UNCHANGED <<collectFrame, outcome, choice>>

\* ++i; i < size
CP_Incr ==
    /\ variant = "collect" /\ pc = "incr"
    /\ loopI' = Inc(loopI)
    /\ pc' = IF Inc(loopI) < Len(people) THEN "read" ELSE "returned"
    /\ UNCHANGED <<collectFrame, outcome, stderr, people, choice, created>>

\* main's summary loop dereferences every slot; an empty one ends the program.
CP_Summary ==
    /\ variant = "collect" /\ pc = "returned"
    /\ pc' = "done"
    /\ outcome' = IF \E k \in 1..Len(people) : people[k] = NullPtr
                  THEN "abort" ELSE outcome
    /\ UNCHANGED <<collectFrame, stderr, people, loopI, choice, created>>

InitCollect ==
    /\ variant = "collect"
    /\ debug = FALSE
    /\ pc = "main"
    /\ stmt = "ops"
    /\ attempts = 0
    /\ call = NoCall
    /\ csResult = NoValue
    /\ ccResult = NoValue
    /\ ret = NoValue
    /\ address = NoValue
    /\ person = NoValue
    /\ person2 = NoValue
    /\ thrown = NoValue
    /\ handled = <<>>
    /\ trace = <<>>
    /\ stderr = <<>>
    /\ termCode = 0
    /\ stdinReady = FALSE
    /\ outcome = "running"
    /\ exitStatus = 0
    /\ unitIn \in {[fn |-> "CollectPeople"], [fn |-> "CollectVehicles"]}
    /\ unitOut = <<>>
    /\ spheres = <<>>
    /\ images = <<>>
    /\ sorted = <<>>
    /\ \E size \in 0..MaxPeople : people = [k \in 1..size |-> NullPtr]
    /\ loopI = 0
    /\ choice = 0
    /\ created = 0

NextCollect ==
    \/ CP_Call
    \/ CP_Read
    \/ CP_Switch
    \/ CP_Incr
    \/ CP_Summary

SpecCollect == InitCollect /\ [][NextCollect]_vars

\* =================================================================== claims
\* The validation predicates, as the specification words them.
ValidAddressFields(street, city, postal_code) ==
    /\ street # <<>>
    /\ city # <<>>
    /\ 1 <= postal_code /\ postal_code <= 99950

ValidPersonFields(name, age) ==
    /\ name # <<>>
    /\ 1 <= age /\ age <= 120

\* T::Create has returned in the harness call in progress.
Created == call.T # "None" /\ csResult.kind # "None"

\* C1: Address::Create returns an Address iff street and city are non-empty
\* and 1 <= postal_code <= 99950 (the Address then holds exactly the
\* arguments); otherwise it returns one ValidationError, the first violated
\* check in the order EmptyStreet, EmptyCity, InvalidPostalCode.
C1_AddressCreate ==
    (Created /\ call.T = "Address") =>
        LET ok == ValidAddressFields(call.street, call.city, call.postal)
        IN  /\ csResult.kind \in {"Address", "Error"}
            /\ (csResult.kind = "Address") <=> ok
            /\ ok => /\ csResult.street = call.street
                     /\ csResult.city = call.city
                     /\ csResult.postal = Some(call.postal)
            /\ ~ok => csResult.tag =
                        IF call.street = <<>> THEN "EmptyStreet"
                        ELSE IF call.city = <<>> THEN "EmptyCity"
                        ELSE "InvalidPostalCode"

\* The example of C1: empty street, empty city and postal code 0 give
\* EmptyStreet.
C1_Witness ==
    /\ Created /\ call.T = "Address"
    /\ call.street = <<>> /\ call.city = <<>> /\ call.postal = 0
    /\ csResult = Error("EmptyStreet")

\* C2: Person::Create returns a Person iff the name is non-empty and
\* 1 <= age <= 120, age being the std::uint8_t parameter; otherwise it
\* returns EmptyName for an empty name and InvalidAge else.
C2_PersonCreate ==
    (Created /\ call.T = "Person") =>
        LET age == ToUint8(call.age)
            ok == ValidPersonFields(call.name, age)
        IN  /\ csResult.kind \in {"Person", "Error"}
            /\ (csResult.kind = "Person") <=> ok
            /\ ok => /\ csResult.name = call.name
                     /\ csResult.age = age
                     /\ csResult.address = call.address
            /\ ~ok => csResult.tag =
                        IF call.name = <<>> THEN "EmptyName" ELSE "InvalidAge"

\* A Person of age 120, the upper end of the range, has been created.
C2_Witness ==
    /\ Created /\ call.T = "Person"
    /\ call.age = 120
    /\ csResult.kind = "Person" /\ csResult.age = 120

\* The arguments of the harness call in progress pass T's validation.
ValidArgs ==
    IF call.T = "Address"
    THEN ValidAddressFields(call.street, call.city, call.postal)
    ELSE ValidPersonFields(call.name, ToUint8(call.age))

TerminationLabels == {"cc_log", "cc_term", "pt_prompt", "pt_get", "pt_exit",
                      "exited"}
ReturnLabels == {"cc_get", "cc_return", "main_got"}

\* C3: CreateAndCheck returns a T to its caller, without terminating the
\* process, for arguments that pass validation; for arguments that fail it
\* never reaches std::get<T> nor its return, and the process it terminates
\* ends with the status of std::errc::invalid_argument, which is not zero.
C3_CreateAndCheck ==
    (call.fn = "CreateAndCheck") =>
        /\ outcome # "abort"
        /\ ValidArgs => /\ pc \notin TerminationLabels
                        /\ outcome = "running"
                        /\ pc = "main_got" => ret.kind = call.T
        /\ ~ValidArgs => /\ pc \notin ReturnLabels
                         /\ pc = "cc_test" => HoldsError(ccResult)
                         /\ outcome = "exit" =>
                               exitStatus = EINVAL /\ exitStatus # 0
        /\ pc = "cc_get" => ~HoldsError(ccResult)

\* A failing CreateAndCheck has ended the process.
C3_Witness ==
    /\ call.fn = "CreateAndCheck" /\ ~ValidArgs
    /\ outcome = "exit" /\ exitStatus = EINVAL

CSLabels == {"cs_enter", "cs_create", "cs_test", "cs_log", "cs_return"}

\* C4: CreateSafely never terminates the process: while it runs the process
\* is alive and one of its own statements can run, and a call of it from
\* main ends only by returning to main.
C4_CreateSafelyNeverTerminates ==
    /\ (call.fn = "CreateSafely") =>
          /\ pc \in CSLabels \cup {"main_got"}
          /\ outcome = "running"
    /\ (pc \in CSLabels) =>
          /\ outcome = "running"
          /\ ENABLED (CS_Enter \/ CS_Create \/ CS_Test \/ CS_Log \/ CS_Return)

\* CreateSafely has returned a ValidationError to main.
C4_Witness ==
    /\ call.fn = "CreateSafely" /\ pc = "main_got"
    /\ HoldsError(ret) /\ outcome = "running"

\* C5: CreateSafely hands its caller (main, or CreateAndCheck's `result`)
\* exactly what T::Create returns for the forwarded arguments, the same
\* error tag or the same entity, whatever the context string is.
C5_CreateSafelyPassesThrough ==
    /\ (call.fn = "CreateSafely" /\ pc = "main_got") =>
          /\ ret = Create(call)
          /\ ret = Create([call EXCEPT !.context = <<>>])
    /\ (call.fn = "CreateAndCheck" /\ pc = "cc_test") =>
          /\ ccResult = Create(call)
          /\ ccResult = Create([call EXCEPT !.context = <<>>])

\* A failure was logged with a non-empty context, written to std::cerr, and
\* returned to main.
C5_Witness ==
    /\ call.fn = "CreateSafely" /\ pc = "main_got"
    /\ HoldsError(ret) /\ call.context # <<>>
    /\ Len(handled) = 1 /\ Len(stderr) = 1

\* The values a program holds: its variables and the locals of the harness.
Held == <<address, person, ret, csResult, ccResult, call.address>>

AddressesIn(v) ==
    IF v.kind = "Address" THEN {v}
    ELSE IF v.kind = "Person" THEN {v.address}
    ELSE {}

LiveAddresses == UNION {AddressesIn(Held[i]) : i \in 1..Len(Held)}

LivePersons ==
    UNION {IF Held[i].kind = "Person" THEN {Held[i]} ELSE {} :
           i \in 1..Len(Held)}

\* The unset sentinel ResetToDefaults leaves.
Sentinel == AddressObject(STREET_UNSET, CITY_UNSET, Nullopt)

AddressInvariant(a) ==
    \/ a.postal.has /\ ValidAddressFields(a.street, a.city, a.postal.val)
    \/ a = Sentinel

\* C6: every Address that exists, in any of the three programs, satisfies the
\* validation predicate or is the unset sentinel, and the sentinel comes to
\* exist only by a call of ResetToDefaults on an existing Address.
C6_AddressInvariant ==
    /\ [](\A a \in LiveAddresses : AddressInvariant(a))
    /\ [][(Sentinel \notin LiveAddresses /\ Sentinel \in LiveAddresses')
             => /\ address.kind = "Address"
                /\ address' = KResetAddress(address)]_vars

\* The constructor program holds an Address that was reset to the sentinel.
C6_Witness ==
    /\ variant = "ctor"
    /\ address = Sentinel

\* C7: every live Person has a non-empty name and an age in [1,120], and its
\* embedded Address satisfies the Address invariant, whatever constructed it.
C7_PersonInvariant ==
    \A p \in LivePersons :
        /\ ValidPersonFields(p.name, p.age)
        /\ AddressInvariant(p.address)

\* Position i of the trace holds event e.
At(i, e) == trace[i] = e

\* C8: in a creation attempt T::Create returns before any report and before
\* any termination decision, every report is complete before
\* ProgramTermination is called and before the process exits, and nothing is
\* reported after that.
C8_Ordering ==
    (call.fn # "None") =>
        /\ (Len(trace) > 0) => At(1, "Create")
        /\ \A i \in 1..Len(trace) : At(i, "Create") => i = 1
        /\ \A i, j \in 1..Len(trace) :
              (i < j /\ trace[i] \in {"Terminate", "Exit"}) => ~At(j, "Log")
        /\ \A i \in 1..Len(trace) : At(i, "Exit") => i = Len(trace)
        /\ Len(handled) = Cardinality({i \in 1..Len(trace) : At(i, "Log")})
        /\ (Len(handled) > 0 \/ pc \in TerminationLabels)
              => csResult.kind # "None"
        /\ (outcome = "exit")
              => \E i \in 1..Len(trace) : At(i, "Terminate")

\* A failing CreateAndCheck ran to the end of the process.
C8_Witness ==
    trace = <<"Create", "Log", "Log", "Terminate", "Exit">>

\* The state of the creation attempt in progress, in the words of the
\* specification's state machine.
Phase ==
    IF call.fn = "None" THEN "Idle"
    ELSE CASE pc = "cs_enter" -> "Start"
           [] pc = "cs_create" -> "Validating"
           [] pc = "main_got" ->
                 IF HoldsError(ret) THEN "Propagated" ELSE "Done"
           [] pc \in {"pt_prompt", "pt_get", "pt_exit", "exited"} ->
                 "Terminated"
           [] OTHER ->
                 IF ~HoldsError(csResult) THEN "Valid"
                 ELSE IF Len(handled) = 0 THEN "Invalid"
                 ELSE "Reported"

Transitions ==
    {<<"Idle", "Start">>, <<"Start", "Validating">>,
     <<"Validating", "Valid">>, <<"Validating", "Invalid">>,
     <<"Valid", "Done">>, <<"Invalid", "Reported">>,
     <<"Reported", "Propagated">>, <<"Reported", "Terminated">>,
     <<"Done", "Idle">>, <<"Propagated", "Idle">>}

\* C9: a creation attempt follows Start -> Validating -> (Valid -> Done) or
\* (Invalid -> Reported -> Propagated | Terminated); CreateSafely is never
\* Terminated, CreateAndCheck is never Propagated, Reported is entered only
\* from Invalid and Done only from Valid.
C9_StateMachine ==
    /\ [](call.fn = "CreateSafely" => Phase # "Terminated")
    /\ [](call.fn = "CreateAndCheck" => Phase # "Propagated")
    /\ [][Phase' # Phase => <<Phase, Phase'>> \in Transitions]_vars

\* A CreateSafely attempt ended Propagated.
C9_Witness ==
    /\ call.fn = "CreateSafely"
    /\ Phase = "Propagated"

\* C10: a failing CreateAndCheck hands exactly two reports to
\* HandleValidationFailure before ProgramTermination is called, first
\* "Creation failed" and then "Critical Creation Failure", both with the
\* error tag T::Create returned and the context of the call; a successful
\* one hands none.
C10_TwoReports ==
    (call.fn = "CreateAndCheck") =>
        /\ pc \in (TerminationLabels \ {"cc_log"}) =>
              /\ Len(handled) = 2
              /\ handled[1].message = MsgCreationFailed
              /\ handled[2].message = MsgCriticalCreationFailure
              /\ HoldsError(csResult)
              /\ handled[1].error = csResult.tag
              /\ handled[2].error = csResult.tag
              /\ handled[1].context = call.context
              /\ handled[2].context = call.context
        /\ pc \in TerminationLabels \ {"cc_log", "cc_term"} =>
              /\ Len(trace) >= 4
              /\ SubSeq(trace, 1, 4) = <<"Create", "Log", "Log", "Terminate">>
        /\ pc \in ReturnLabels => Len(handled) = 0

\* A failing CreateAndCheck with a non-empty context ended the process.
C10_Witness ==
    /\ call.fn = "CreateAndCheck"
    /\ outcome = "exit"
    /\ call.context # <<>>
    /\ Len(handled) = 2

\* What the validator of T answers for the arguments of the call in progress.
Validated ==
    IF call.T = "Address"
    THEN ValidateAddress(call.street, call.city, call.postal)
    ELSE ValidatePerson(call.name, ToUint8(call.age))

\* C11: the validators and the Create factories of the factory program end
\* normally for every input: the validator answers "no error" or one of the
\* five tags, Create returns a T in the first case and exactly that one
\* ValidationError (and nothing else) in the second, the process is running
\* and goes on with the statement after the call, and after a failure the
\* caller holds no Address or Person from this call.
C11_NoThrow ==
    Created =>
        /\ variant = "factory"
        /\ Validated \in ErrorTags \cup {NoError}
        /\ (Validated = NoError) => csResult.kind = call.T
        /\ (Validated # NoError) => csResult = Error(Validated)
        /\ (pc = "cs_test") => outcome = "running" /\ ENABLED CS_Test
        /\ HoldsError(csResult) =>
              /\ ret.kind \in {"None", "Error"}
              /\ (call.T = "Address") => address = NoValue
              /\ (call.T = "Person") => person = NoValue

\* Person::Create answered InvalidAge and main got that error and no Person.
C11_Witness ==
    /\ Created /\ call.T = "Person" /\ pc = "main_got"
    /\ csResult = Error("InvalidAge") /\ ret = Error("InvalidAge")
    /\ person = NoValue

\* C12: a process that ended by std::exit ended with status 0 when no
\* CreateAndCheck call failed (in particular when main created its Address
\* and its Person), and with the status of std::errc::invalid_argument, which
\* is not 0, when a CreateAndCheck call failed; so the two statuses differ.
C12_ExitStatuses ==
    (outcome = "exit") =>
        /\ call.fn \in {"None", "CreateAndCheck"}
        /\ (call.fn = "CreateAndCheck") =>
              /\ ~ValidArgs
              /\ exitStatus = EINVAL
              /\ exitStatus # EXIT_SUCCESS
        /\ (call.fn = "None") => exitStatus = EXIT_SUCCESS /\ exitStatus = 0
        /\ (variant = "factory" /\ person.kind = "Person") =>
              /\ call.fn = "None"
              /\ address.kind = "Address"
              /\ exitStatus = 0

\* The success path of the factory program has ended: both objects exist.
C12_Witness ==
    /\ variant = "factory" /\ outcome = "exit"
    /\ address.kind = "Address" /\ person.kind = "Person"
    /\ exitStatus = 0

C14_Immutable ==
    [][ /\ (address.kind = "Address" /\ address' # address) =>
              /\ variant = "ctor"
              /\ address' = AddressObject(STREET_UNSET, CITY_UNSET, Nullopt)
        /\ (person.kind = "Person" /\ person' # person) =>
              /\ variant = "ctor"
              /\ person' = PersonObject(NAME_UNSET, AGE_UNSET, person.address)
      ]_vars

\* Both objects of the constructor program were reset: the Address holds the
\* sentinel while the Person, reset too, still embeds the Address it was
\* built from.
C14_Witness ==
    /\ variant = "ctor" /\ pc = "main"
    /\ address = Sentinel
    /\ person.kind = "Person"
    /\ person.name = NAME_UNSET /\ person.age = AGE_UNSET
    /\ person.address # Sentinel

\* C15: a Person holds a copy of the Address it was built from: the embedded
\* Address equals that Address when the Person is built and then never
\* changes, whether main's Address is reset, leaves its scope, or the Person
\* itself is reset; and of two Persons built from the same Address a change
\* to one leaves the other as it was.
C15_AddressByValue ==
    [][ /\ (person.kind = "None" /\ person'.kind = "Person") =>
              person'.address = address
        /\ (person2.kind = "None" /\ person2'.kind = "Person") =>
              person2'.address = address
        /\ (person.kind = "Person") =>
              /\ person'.kind = "Person"
              /\ person'.address = person.address
        /\ (person2.kind = "Person") =>
              /\ person2'.kind = "Person"
              /\ person2'.address = person2.address
        /\ (person.kind = "Person" /\ person2.kind = "Person") =>
              /\ (person' # person) => person2' = person2
              /\ (person2' # person2) => person' = person
      ]_vars

\* Two Persons were built from one Address; the Address was reset and the
\* first Person too, and the second Person is as it was built.
C15_Witness ==
    /\ variant = "ctor"
    /\ address = Sentinel
    /\ person.kind = "Person" /\ person2.kind = "Person"
    /\ person.address = person2.address /\ person.address # Sentinel
    /\ person.name = NAME_UNSET /\ person2.name # NAME_UNSET
    /\ person2.age = 30

\* The sentence the specification gives each named tag.
SentenceOf ==
    [EmptyStreet |-> MsgEmptyStreet, EmptyCity |-> MsgEmptyCity,
     InvalidPostalCode |-> MsgInvalidPostalCode, EmptyName |-> MsgEmptyName,
     InvalidAge |-> MsgInvalidAge]

\* C16: GetErrorMessage returns a sentence for every value of the
\* enumeration: for each of the five named failures its own sentence, the
\* five being pairwise distinct and none of them the unknown sentence, for
\* ValidationError::None and every value without a name
\* "Unknown validation error."; and a second call returns what the first did.
C16_GetErrorMessageTotal ==
    (unitIn.fn = "GetErrorMessage") =>
        /\ \A i \in 1..Len(unitOut) :
              /\ unitOut[i] # <<>>
              /\ unitOut[i] = unitOut[1]
              /\ (unitIn.error \in ErrorTags) =>
                    /\ unitOut[i] = SentenceOf[unitIn.error]
                    /\ unitOut[i] # MsgUnknown
              /\ (unitIn.error \notin ErrorTags) => unitOut[i] = MsgUnknown
        /\ \A e1, e2 \in ErrorTags :
              (e1 # e2) => GetErrorMessage(e1) # GetErrorMessage(e2)
        /\ DOMAIN SentenceOf = ErrorTags

\* GetErrorMessage(ValidationError::None) was called twice and answered the
\* unknown sentence.
C16_Witness ==
    /\ unitIn.fn = "GetErrorMessage" /\ unitIn.error = "None"
    /\ Len(unitOut) = 2
    /\ unitOut[2] = MsgUnknown

\* A field as the specification says it is logged: itself when it has at
\* most max characters, else its first max characters and an ellipsis.
Logged(text, max) ==
    IF Len(text) <= max THEN text
    ELSE [i \in 1..(max + 3) |-> IF i <= max THEN text[i] ELSE "."]

\* A direct call of HandleValidationFailure has returned.
HandlerReturned == unitIn.fn = "HandleValidationFailure" /\ unitOut # <<>>

\* C17: with the flag on, one call of HandleValidationFailure adds exactly
\* one line to std::cerr: "[Validation Failure] " and the sentence of the
\* error, then " | Context: " and the logged context iff the context is not
\* empty, then " | Info: " and the logged info iff additional_info is not
\* empty; an empty field leaves no trace in the line.
C17_LineFormat ==
    (HandlerReturned /\ debug) =>
        LET head == <<"[","V","a","l","i","d","a","t","i","o","n"," ","F","a","i","l","u","r","e","]"," ">>
                    \o GetErrorMessage(unitIn.error)
            ctx == IF unitIn.context = <<>> THEN <<>>
                   ELSE <<" ","|"," ","C","o","n","t","e","x","t",":"," ">>
                        \o Logged(unitIn.context, unitIn.max_length)
            info == IF unitIn.additional_info = <<>> THEN <<>>
                    ELSE <<" ","|"," ","I","n","f","o",":"," ">>
                         \o Logged(unitIn.additional_info, unitIn.max_length)
        IN  /\ Len(stderr) = 1
            /\ stderr[1] = head \o ctx \o info
            /\ (unitIn.context = <<>> /\ unitIn.additional_info = <<>>) =>
                  stderr[1] = head

\* With the flag on, a call with an empty context and a non-empty info wrote
\* its line.
C17_Witness ==
    /\ HandlerReturned /\ debug
    /\ unitIn.context = <<>> /\ unitIn.additional_info # <<>>
    /\ Len(stderr) = 1

\* The part of a line after its first k characters.
After(line, k) == SubSeq(line, k + 1, Len(line))

\* A logged field ends here: the line ends or the info segment begins.
FieldEnds(rest) ==
    \/ rest = <<>>
    \/ /\ Len(rest) >= Len(InfoSep)
       /\ SubSeq(rest, 1, Len(InfoSep)) = InfoSep

\* The line shows `text`, cut to `max`, from its character k + 1 on.
ShowsField(line, k, text, max) ==
    IF Len(text) <= max
    THEN /\ SubSeq(line, k + 1, k + Len(text)) = text
         /\ FieldEnds(After(line, k + Len(text)))
    ELSE /\ SubSeq(line, k + 1, k + max) = SubSeq(text, 1, max)
         /\ SubSeq(line, k + max + 1, k + max + 3) = <<".", ".", ".">>
         /\ FieldEnds(After(line, k + max + 3))

\* C18: in the line HandleValidationFailure writes, a context or info of at
\* most max_length characters appears whole, with no ellipsis after it (so a
\* field of exactly max_length characters is not cut), and a longer one
\* appears as its first max_length characters followed by "...": a
\* 15-character context under max_length 10 shows 10 characters and the
\* ellipsis.
C18_Truncation ==
    (HandlerReturned /\ debug) =>
        LET line == stderr[1]
            k == Len(LogPrefix) + Len(GetErrorMessage(unitIn.error))
            shown == IF Len(unitIn.context) <= unitIn.max_length
                     THEN Len(unitIn.context) ELSE unitIn.max_length + 3
            k2 == IF unitIn.context = <<>> THEN k
                  ELSE k + Len(ContextSep) + shown
        IN  /\ (unitIn.context # <<>>) =>
                  ShowsField(line, k + Len(ContextSep), unitIn.context,
                             unitIn.max_length)
            /\ (unitIn.additional_info # <<>>) =>
                  /\ ShowsField(line, k2 + Len(InfoSep),
                                unitIn.additional_info, unitIn.max_length)
                  /\ Len(line) = k2 + Len(InfoSep)
                        + (IF Len(unitIn.additional_info) <= unitIn.max_length
                           THEN Len(unitIn.additional_info)
                           ELSE unitIn.max_length + 3)

\* The example of C18: a 15-character context logged under max_length 10.
C18_Witness ==
    /\ HandlerReturned /\ debug
    /\ Len(unitIn.context) = 15 /\ unitIn.max_length = 10
    /\ Len(stderr) = 1

\* C19: with Config::DEBUG_MODE false HandleValidationFailure does nothing:
\* std::cerr stays empty in the factory and the constructor program, whatever
\* arguments a call is given; a call of it from the harness changes no
\* variable of the program and returns to the next statement; and what the
\* harness returns and the status the process ends with are fixed by the
\* call alone, so they are the same with the flag on and off.
C19_DisabledNoOp ==
    /\ []((~debug /\ variant \in {"factory", "ctor"}) => stderr = <<>>)
    /\ []((~debug /\ pc \in {"cs_log", "cc_log"}) =>
            \A error \in AllTags, context \in Strings, info \in Strings,
               max_length \in {0, MAX_LOG_LENGTH, DEFAULT_MAX_LENGTH} :
               HandleValidationFailure(stderr, error, context, info,
                                       max_length, debug) = stderr)
    /\ [][(variant = "factory" /\ Len(handled') > Len(handled)) =>
             /\ UNCHANGED <<call, csResult, ccResult, ret, address, person,
                            termCode, outcome, exitStatus, stdinReady>>
             /\ outcome' = "running"
             /\ pc' = (IF pc = "cs_log" THEN "cs_return" ELSE "cc_term")
             /\ (~debug) => stderr' = stderr
             /\ debug => Len(stderr') = Len(stderr) + 1]_vars
    /\ []((pc = "main_got") => ret = Create(call))
    /\ []((variant = "factory" /\ outcome = "exit") =>
            exitStatus = (IF call.fn = "CreateAndCheck" THEN EINVAL
                          ELSE EXIT_SUCCESS))

\* With the flag off a failing CreateAndCheck made its two reports, wrote
\* nothing and ended the process.
C19_Witness ==
    /\ ~debug /\ variant = "factory"
    /\ call.fn = "CreateAndCheck" /\ Len(handled) = 2
    /\ stderr = <<>>
    /\ outcome = "exit" /\ exitStatus = EINVAL

\* C20: on the fatal path of CreateAndCheck, from the second report to the
\* exit, the program always has a step of its own to take: none of its
\* steps waits for an event from outside, such as a key being pressed.
C20_NoWaitBeforeExit ==
    (/\ call.fn = "CreateAndCheck"
     /\ HoldsError(ccResult)
     /\ Len(handled) = 2
     /\ outcome = "running") =>
        ENABLED (CC_Terminate \/ PT_Prompt \/ PT_Get \/ PT_Exit)

\* C21: in the constructor program a constructor of Address whose validation
\* fails completes normally: no exception leaves it after ValidateAddress
\* answered an error, and the report it hands to HandleValidationFailure
\* comes with an Address that holds the unset sentinel.
C21_FailedConstructionCompletes ==
    (variant = "ctor") =>
        /\ ~(thrown.kind = "Thrown" /\ thrown.at = "HandleValidationFailure")
        /\ (/\ pc = "declared" /\ handled # <<>>
            /\ handled[1].context = CtxAddressConstructor) =>
              \/ address = Sentinel
              \/ person.kind = "Person" /\ person.address = Sentinel

\* C22: no execution reads the value of an empty optional postal code: no
\* std::bad_optional_access is ever thrown, neither by Address(), nor by a
\* constructor whose validation fails, nor anywhere else.
C22_NoEmptyOptionalRead ==
    /\ ~(thrown.kind = "Thrown" /\ thrown.what = "bad_optional_access")
    /\ outcome # "abort"

\* C23: an int age a handed to CreateSafely<Person> or CreateAndCheck<Person>
\* reaches Person::Create reduced modulo 256: the result is a Person iff the
\* name is not empty and a mod 256 lies in [1,120], the Person stores
\* a mod 256, and a rejected age gives InvalidAge; so 257 is stored as 1 and
\* 256, 0 and -1 (255) are rejected.
C23_AgeModulo256 ==
    (Created /\ call.T = "Person") =>
        LET m == call.age % 256
        IN  /\ (csResult.kind = "Person") <=>
                  (call.name # <<>> /\ 1 <= m /\ m <= 120)
            /\ (csResult.kind = "Person") => csResult.age = m
            /\ (call.name # <<>> /\ call.age \in {-1, 0, 256}) =>
                  csResult = Error("InvalidAge")
            /\ (call.name # <<>> /\ call.age = 257) =>
                  csResult.kind = "Person" /\ csResult.age = 1

\* CreateAndCheck<Person> was given age 257 and returned a Person of age 1.
C23_Witness ==
    /\ call.fn = "CreateAndCheck" /\ call.T = "Person" /\ call.age = 257
    /\ pc = "main_got"
    /\ ret.kind = "Person" /\ ret.age = 1

\* C24: max3(first, second, third) returns the maximum of its three
\* arguments: the result is greater than or equal to each argument and equal
\* to one of them, whatever the order of the arguments.
C24_Max3IsMaximum ==
    (unitIn.fn = "max3" /\ unitOut # <<>>) =>
        LET r == unitOut[1]
        IN  /\ r >= unitIn.first /\ r >= unitIn.second /\ r >= unitIn.third
            /\ r \in {unitIn.first, unitIn.second, unitIn.third}

\* C25: after any sequence of Sphere constructions and SetRadius calls, every
\* Sphere's radius is greater than zero and less than a million.
C25_RadiusInRange ==
    (variant = "sphere") =>
        \A k \in 1..Len(spheres) :
            /\ Greater(spheres[k], Double(0))
            /\ ~spheres[k].nan /\ spheres[k].v < 1000000

\* The validation rules of an Image, as the specification words them.
ValidImageFields(width, height, color_depth) ==
    /\ width % 2 = 0 /\ 40 <= width /\ width <= 7680
    /\ height % 2 = 0 /\ 25 <= height /\ height <= 4320
    /\ 1 <= color_depth /\ color_depth <= 128
    /\ color_depth \in {1, 3} \/ color_depth % 2 = 0

FallbackImage == [m_width |-> 1920, m_height |-> 1080, m_color_depth |-> 6]

\* C26: after any sequence of Image constructions and SetColorDepth calls,
\* every Image has an even width in [40, 7680], an even height in [25, 4320]
\* and a colour depth that is 1, 3 or an even number in [1, 128]; a
\* constructor call with an invalid parameter yields 1920x1080 depth 6, one
\* with valid parameters keeps them, and SetColorDepth with an invalid depth
\* leaves the image unchanged.
C26_ImageInvariant ==
    (variant = "image") =>
        /\ \A k \in 1..Len(images) :
              /\ ValidImageFields(images[k].m_width, images[k].m_height,
                                  images[k].m_color_depth)
              /\ \A d \in SetDepths :
                    LET after == SetColorDepth(images[k], d)
                    IN  IF ValidImageFields(40, 26, d)
                        THEN after = [images[k] EXCEPT !.m_color_depth = d]
                        ELSE after = images[k]
        /\ \A a \in ImageArgs :
              LET built == ImageCtor(a[1], a[2], a[3]).image
              IN  IF ValidImageFields(a[1], a[2], a[3])
                  THEN built = [m_width |-> a[1], m_height |-> a[2],
                                m_color_depth |-> a[3]]
                  ELSE built = FallbackImage
        /\ (unitOut = <<MsgFallbackImage>>) =>
              images[Len(images)] = FallbackImage

\* An invalid construction fell back to 1920x1080 depth 6 next to an image
\* that keeps its valid parameters.
C26_Witness ==
    /\ variant = "image" /\ Len(images) = 2
    /\ unitOut = <<MsgFallbackImage>>
    /\ images[2] = FallbackImage
    /\ images[1] = [m_width |-> 7680, m_height |-> 4320, m_color_depth |-> 3]

\* C27: for every valid Image GetSize() equals the mathematical product
\* width * height * color_depth: the int multiplication never overflows, no
\* call of GetSize() traps, and the sizes printed are the true sizes.
C27_GetSizeIsProduct ==
    (variant = "image") =>
        /\ outcome # "abort"
        /\ \A k \in 1..Len(images) :
              /\ ~Overflows(images[k])
              /\ GetSize(images[k]) = TrueSize(images[k])
        /\ (pc = "printed") =>
              \A k \in 1..Len(images) :
                  unitOut[k + 1].size = TrueSize(images[k])

CountOf(v, x) == Cardinality({k \in 1..Len(v) : v[k] = x})

\* C28: when Sort(images) returns, the vector is a permutation of its previous
\* contents ordered by non-decreasing GetSize(); when ReverseSort(images)
\* returns, a permutation ordered by non-increasing GetSize(); the vector
\* returned equals the sorted argument, so a Sort after a ReverseSort (or the
\* reverse) keeps the multiset of images.
C28_SortPermutes ==
    (variant = "image" /\ pc = "sorted") =>
        /\ Len(images) = Len(unitIn.images)
        /\ \A k \in 1..Len(images) :
              CountOf(images, images[k]) = CountOf(unitIn.images, images[k])
        /\ sorted = images
        /\ (unitIn.fn = "Sort") =>
              \A k \in 1..(Len(images) - 1) :
                  ~LimbLess(GetSize(images[k + 1]), GetSize(images[k]))
        /\ (unitIn.fn = "ReverseSort") =>
              \A k \in 1..(Len(images) - 1) :
                  ~LimbLess(GetSize(images[k]), GetSize(images[k + 1]))

\* ReverseSort moved the larger of two images to the front.
C28_Witness ==
    /\ variant = "image" /\ pc = "sorted" /\ unitIn.fn = "ReverseSort"
    /\ Len(images) = 2
    /\ unitIn.images[1] = [m_width |-> 40, m_height |-> 26, m_color_depth |-> 1]
    /\ images[2] = unitIn.images[1]
    /\ images[1] = unitIn.images[2]
    /\ images[1] # images[2]
    /\ sorted = images

\* The traffic tax of a vehicle, as the specification words it.
TaxOf(vehicle) ==
    IF vehicle.kind = "Car"
    THEN (IF vehicle.m_engine_cc <= 1000 THEN 140
          ELSE 140 + 10 * ((vehicle.m_engine_cc - 1000) \div 100))
    ELSE (IF vehicle.m_max_weight <= 3000 THEN 300
          ELSE IF vehicle.m_max_weight <= 6000 THEN 400 ELSE 600)

RECURSIVE SumOfTaxes(_, _)
SumOfTaxes(v, n) == IF n = 0 THEN 0 ELSE SumOfTaxes(v, n - 1) + TaxOf(v[n])

\* C29: Vehicle::CalculateTotalTax(vehicles, size) returns the sum of the
\* traffic taxes of exactly the entries 0..size-1 (0 for size 0) and reads no
\* entry at an index >= size.
C29_TotalTax ==
    (unitIn.fn = "CalculateTotalTax" /\ unitOut # <<>>) =>
        /\ unitOut[1].tax = SumOfTaxes(unitIn.vehicles, unitIn.size)
        /\ unitOut[1].reads = 0..(unitIn.size - 1)
        /\ (unitIn.size = 0) => unitOut[1].tax = 0

\* A Car of 1099 cc and a Truck of 6001 kg: 140 + 600
C29_Witness ==
    /\ unitIn.fn = "CalculateTotalTax" /\ unitIn.size = 2
    /\ unitIn.vehicles[1] = [kind |-> "Car", m_engine_cc |-> 1099]
    /\ unitIn.vehicles[2] = [kind |-> "Truck", m_max_weight |-> 6001]
    /\ unitOut = <<[tax |-> 740, reads |-> {0, 1}]>>

\* C30: when CollectPeople (or CollectVehicles) returns, every slot 0..size-1
\* holds an object and exactly size objects were created; an invalid choice
\* creates nothing, fills no slot and the same slot is asked for again, also
\* at index 0; the loop reads another choice exactly while fewer than size
\* valid choices have been entered, and main dereferences no empty slot.
C30_EverySlotFilled ==
    (variant = "collect") =>
        /\ outcome # "abort"
        /\ created = Cardinality({k \in 1..Len(people) : people[k] # NullPtr})
        /\ (pc \in {"returned", "done"}) =>
              /\ \A k \in 1..Len(people) : people[k] # NullPtr
              /\ created = Len(people)
        /\ (pc \in {"read", "switch"}) =>
              /\ loopI = created /\ created < Len(people)
              /\ \A k \in 1..Len(people) : (people[k] # NullPtr) <=> (k <= loopI)
        /\ (pc = "incr") => Inc(loopI) = created
        /\ (pc = "incr" /\ created = 0) => loopI = SIZE_MAX

\* Two invalid choices were turned away and both slots were filled.
C30_Witness ==
    /\ variant = "collect" /\ pc = "done" /\ outcome = "running"
    /\ unitIn.fn = "CollectPeople"
    /\ Len(people) = 2 /\ Len(stderr) = 2
    /\ people[1].kind = "Footballer" /\ people[2].kind = "Teacher"
    /\ created = 2

====
